---- MODULE Spec2Model ----
(***************************************************************************)
(* Simulation core of the skiing game (latest variant of GameCanvas.tsx,   *)
(* lines 994-2281) with its host (App, src/unnamed/part_000), the keyboard *)
(* wiring and the commentary service (src/services/geminiService.ts).      *)
(*                                                                         *)
(* Numbers.  The program computes in IEEE doubles.  The model keeps every  *)
(* length, speed, heading and probability roll as a fixed-point integer in *)
(* thousandths (1 px = 1000, speed 0.25 px/tick = 250, heading 0.2 = 200,  *)
(* roll 0.495 = 495).  Products are rounded toward zero to the next        *)
(* thousandth.  Distances (Math.sqrt of dx*dx + dy*dy) are taken on whole  *)
(* pixels.  Timers and counters are plain integers.                        *)
(***************************************************************************)
EXTENDS Integers, Sequences, FiniteSets, TLC

VARIABLES
    gameState,          \* host: App's useState<GameState>
    playerRef,          \* playerRef.current
    entitiesRef,        \* entitiesRef.current, in array order
    projectilesRef,     \* projectilesRef.current, in array order
    groundFeaturesRef,  \* groundFeaturesRef.current, in array order
    scoreRef,           \* scoreRef.current
    yetiRef,            \* yetiRef.current, Null when absent
    timeRef,            \* timeRef.current, the frame counter of update()
    lastFireTimeRef,    \* lastFireTimeRef.current
    inputRef,           \* the key codes whose flag is true in inputRef.current
    requestRef,         \* requestRef.current: animation frames requested so far
    obs,                \* what the latest handler did (observation only)
    score,              \* host: App's useState score
    highScores,         \* host: the leaderboard, in array order
    isNewHighScore,     \* host: whether the name form is shown
    hasCheckedHighScore, \* host: whether this game over was compared already
    playerName,         \* host: the text of the name input
    commentary,         \* host: the announcer's line
    calls,              \* generateGameCommentary calls waiting for the provider
    apiKey,             \* whether process.env.API_KEY is set
    isRateLimited,      \* geminiService's module flag
    timers,             \* pending cooldown timeouts: the time each has left
    sinceSignal,        \* time since the last rate-limit signal, -1 before any
    told                \* the latest commentary result (observation only)

appVars == <<score, highScores, isNewHighScore, hasCheckedHighScore, playerName,
             commentary, calls, apiKey, isRateLimited, timers, sinceSignal, told>>

vars == <<gameState, playerRef, entitiesRef, projectilesRef, groundFeaturesRef,
          scoreRef, yetiRef, timeRef, lastFireTimeRef, inputRef, requestRef, obs,
          appVars>>

simVars == <<playerRef, entitiesRef, projectilesRef, groundFeaturesRef,
             scoreRef, yetiRef, timeRef, lastFireTimeRef>>

---------------------------------------------------------------------------
(* Bounds of the exploration *)

\* animation frames explored from an initial state
MaxFrames == 2
\* capacity of the entity store: the generator adds only below it
MaxEntities == 1
\* capacity of the ground feature list
MaxGround == 1
\* commentary calls that can wait for the provider when resetGame adds one
MaxCalls == 3

---------------------------------------------------------------------------
(* Program constants, GameCanvas.tsx lines 998-1031 *)

CANVAS_WIDTH == 800000
CANVAS_HEIGHT == 600000
SPEED_SCALE == 250
GLOBAL_SPEED_LIMIT == 100 * SPEED_SCALE
PLAYER_BOOST_SPEED == 95 * SPEED_SCALE
PLAYER_NORMAL_MAX == 80 * SPEED_SCALE
PLAYER_CRUISE_SPEED == 40 * SPEED_SCALE
PLAYER_ACCEL == 250
TURN_SPEED == 200
DRAG == 100
JUMP_STRENGTH == 8000
GRAVITY == 400
YETI_BASE_SPEED == 60 * SPEED_SCALE
YETI_TOP_SPEED == 85 * SPEED_SCALE
YETI_ACCEL_FACTOR == 120
PROJECTILE_SPEED == 30000
YETI_MIN_SPAWN_DIST == 2500000
POWERUP_DURATION == 180
YETI_SCARE_DURATION == 240
COFFEE_PER_PICKUP == 1

\* the key codes update() reads from inputRef
Keys == {"ArrowLeft", "ArrowRight", "ArrowDown", "ArrowUp", "Space"}

\* the sets of keys held down at the same time: none, each key alone, both
\* turn keys, and accelerate with jump
KeySets ==
    {{}} \cup {{k} : k \in Keys}
    \cup {{"ArrowLeft", "ArrowRight"}, {"ArrowDown", "ArrowUp"}}

---------------------------------------------------------------------------
(* Arithmetic *)

Abs(a) == IF a < 0 THEN -a ELSE a
Min(a, b) == IF a < b THEN a ELSE b
Max(a, b) == IF a > b THEN a ELSE b

\* a / b rounded toward zero (b > 0)
Quot(a, b) == IF a >= 0 THEN a \div b ELSE -((-a) \div b)

\* product of two thousandths, in thousandths
MulMilli(a, b) == Quot(a * b, 1000)

\* a length in whole pixels
ToPx(a) == Quot(a, 1000)

\* Math.floor of a thousandths value, as an integer
Floor(a) == a \div 1000

RECURSIVE SqrtIter(_, _)
SqrtIter(n, x) ==
    LET y == (x + n \div x) \div 2
    IN IF y >= x THEN x ELSE SqrtIter(n, y)

\* integer square root
ISqrt(n) == IF n <= 0 THEN 0 ELSE SqrtIter(n, n)

\* Math.sqrt(dx * dx + dy * dy) in whole pixels, dx and dy in thousandths
Dist(dx, dy) == ISqrt(ToPx(dx) * ToPx(dx) + ToPx(dy) * ToPx(dy))

\* (d / dist) * speed: the component along d of a step of length speed
Along(d, dist, speed) == Quot(ToPx(d) * speed, dist)

\* Math.sin and Math.cos of direction * (PI / 4) for the headings the turn
\* increments produce (multiples of TURN_SPEED, 9 degrees each), in thousandths
SinTable == <<0, 156, 309, 454, 588, 707, 809, 891, 951, 988, 1000>>
\* the sine of k * 9 degrees, k >= 0
SinStep(k) ==
    LET j == k % 40
    IN IF j <= 10 THEN SinTable[j + 1]
       ELSE IF j <= 20 THEN SinTable[21 - j]
       ELSE IF j <= 30 THEN -SinTable[j - 19]
       ELSE -SinTable[41 - j]
SinDir(direction) ==
    LET s == SinStep(Abs(direction) \div TURN_SPEED)
    IN IF direction < 0 THEN -s ELSE s
\* the cosine of direction * (PI / 2)
CosDirHalfPi(direction) == SinStep(2 * (Abs(direction) \div TURN_SPEED) + 10)

CosDir(direction) == SinStep(Abs(direction) \div TURN_SPEED + 10)

\* Math.sin(a) for a >= 0 in thousandths of a radian (Bhaskara's rational
\* approximation on each half period)
SinMilli(a) ==
    LET r == a % 6283
        x == IF r > 3141 THEN r - 3141 ELSE r
        q == (x * (3141 - x)) \div 1000
        s == (16 * q * 1000) \div (49348 - 4 * q)
    IN IF r > 3141 THEN -s ELSE s

---------------------------------------------------------------------------
(* Records *)

\* playerRef's initial value and resetGame's (lines 1073, 1833)
InitialPlayer ==
    [x |-> CANVAS_WIDTH \div 2, y |-> 100000, speed |-> 0, direction |-> 0,
     state |-> "skiing", jumpHeight |-> 0, jumpVelocity |-> 0,
     powerUpTimer |-> 0, coffee |-> 0]

\* yetiRef.current = null
Null == [x |-> 0, y |-> 0, mode |-> "null", modeTimer |-> 0, currentSpeed |-> 0]

Alive(p) == p.state = "skiing" \/ p.state = "jumping"

\* the observation record before any tick or reset
NoObs ==
    [kind |-> "none", resets |-> 0, landed |-> FALSE, afterMove |-> InitialPlayer,
     genCalled |-> FALSE, genAdded |-> 0, atCollision |-> InitialPlayer,
     store |-> <<>>, effects |-> <<>>, crashes |-> 0,
     yetiSpawned |-> FALSE, yetiDespawned |-> FALSE, fired |-> FALSE,
     hits |-> 0, eats |-> FALSE, yetiAtCheck |-> Null, keys |-> {}]

---------------------------------------------------------------------------
(* update(), step 1: input handling and physics (lines 1851-1926) *)

\* ArrowLeft (line 1854)
TurnLeft(direction) == Max(direction - TURN_SPEED, -2000)

\* TurnRight without the upper clamp
TurnRightUnclamped(direction) == Max(direction + TURN_SPEED, -2000)

\* ArrowRight (lines 1857-1858)
TurnRight(direction) == Max(Min(direction + TURN_SPEED, 2000), -2000)

\* both turn keys, left first (lines 1853-1859)
Steer(direction, keys) ==
    LET d1 == IF "ArrowLeft" \in keys THEN TurnLeft(direction) ELSE direction
    IN IF "ArrowRight" \in keys THEN TurnRight(d1) ELSE d1

\* slopeFactor = 1 - |direction| / 2.5 (line 1872)
SlopeFactor(direction) == 1000 - (Abs(direction) * 1000) \div 2500

\* Accelerate without the clamp to the normal maximum
AccelerateUnclamped(speed) ==
    IF speed < PLAYER_NORMAL_MAX THEN speed + PLAYER_ACCEL ELSE speed - 20

\* ArrowDown held (lines 1865-1870)
Accelerate(speed) ==
    IF speed < PLAYER_NORMAL_MAX
    THEN Min(speed + PLAYER_ACCEL, PLAYER_NORMAL_MAX)
    ELSE speed - 20

\* ArrowDown released: drag toward the cruise target, or gravity (lines 1872-1881)
Cruise(speed, direction) ==
    LET slopeFactor == SlopeFactor(direction)
        targetSpeed == MulMilli(PLAYER_CRUISE_SPEED, slopeFactor)
    IN IF speed > targetSpeed
       THEN Max(targetSpeed, speed - DRAG)
       ELSE speed + MulMilli(50, slopeFactor)

\* line 1885
CapSpeed(speed) == IF speed > GLOBAL_SPEED_LIMIT THEN GLOBAL_SPEED_LIMIT ELSE speed

\* line 1925
FloorSpeed(speed) == IF speed < 0 THEN 0 ELSE speed

\* JumpBump adding 1.0 instead of 0.5
JumpBumpDouble(speed) == Min(speed + 1000, GLOBAL_SPEED_LIMIT)

\* the speed bump of a jump (line 1891)
JumpBump(speed) == Min(speed + 500, GLOBAL_SPEED_LIMIT)

\* CanFire without the test of the coffee held
CanFireWithoutCoffee(p, keys, time, lastFire) ==
    "Space" \in keys /\ time - lastFire > 20

\* CanFire without the wait since the last shot
CanFireAnyTime(p, keys, time, lastFire) ==
    "Space" \in keys /\ p.coffee > 0

\* whether this tick fires (line 1895)
CanFire(p, keys, time, lastFire) ==
    "Space" \in keys /\ p.coffee > 0 /\ time - lastFire > 20

\* the coffee cup thrown from p, aimed at the Yeti when there is one (lines 1899-1922)
NewProjectile(p, yeti) ==
    LET dx == yeti.x - p.x
        dy == yeti.y - p.y
        dist == Dist(dx, dy)
        aimed == yeti # Null /\ dist > 0
    IN [type |-> "COFFEE_CUP", x |-> p.x, y |-> p.y - 20000,
        vx |-> IF aimed THEN Along(dx, dist, PROJECTILE_SPEED) ELSE 0,
        vy |-> IF aimed THEN Along(dy, dist, PROJECTILE_SPEED) ELSE -PROJECTILE_SPEED]

\* a jump that can start in the air as well
JumpsInAir(p, keys) == "ArrowUp" \in keys /\ Alive(p)

\* whether this tick starts a jump (line 1886)
Jumps(p, keys) == "ArrowUp" \in keys /\ p.state = "skiing"

\* step 1 as a whole: the player after it, whether a cup was thrown
PlayerInput(p, keys, time, lastFire) ==
    IF ~Alive(p) THEN [player |-> p, fired |-> FALSE]
    ELSE
    LET direction == Steer(p.direction, keys)
        s1 == IF "ArrowDown" \in keys
              THEN Accelerate(p.speed) ELSE Cruise(p.speed, direction)
        s2 == CapSpeed(s1)
        jump == Jumps(p, keys)
        s3 == IF jump THEN JumpBump(s2) ELSE s2
        fired == CanFire(p, keys, time, lastFire)
    IN [player |-> [p EXCEPT !.direction = direction,
                             !.speed = FloorSpeed(s3),
                             !.state = IF jump THEN "jumping" ELSE @,
                             !.jumpVelocity = IF jump THEN JUMP_STRENGTH ELSE @,
                             !.coffee = IF fired THEN @ - 1 ELSE @],
        fired |-> fired]

---------------------------------------------------------------------------
(* update(), step 2: movement (lines 1928-1945) *)

\* whether the integrated jump height is back on the ground (line 1937)
Lands(p) == p.state = "jumping" /\ p.jumpHeight + p.jumpVelocity <= 0

\* JumpArc landing with the fall velocity kept
JumpArcKeepsVelocity(p) ==
    IF p.state # "jumping" THEN p
    ELSE IF Lands(p)
         THEN [p EXCEPT !.jumpHeight = 0, !.state = "skiing"]
         ELSE [p EXCEPT !.jumpHeight = @ + p.jumpVelocity,
                        !.jumpVelocity = @ - GRAVITY]

\* the jump arc of one tick (lines 1934-1942)
JumpArc(p) ==
    IF p.state # "jumping" THEN p
    ELSE IF Lands(p)
         THEN [p EXCEPT !.jumpHeight = 0, !.jumpVelocity = 0, !.state = "skiing"]
         ELSE [p EXCEPT !.jumpHeight = @ + p.jumpVelocity,
                        !.jumpVelocity = @ - GRAVITY]

\* line 1944
PowerUpTick(timer) == IF timer > 0 THEN timer - 1 ELSE timer

PlayerMove(p) ==
    IF ~Alive(p) THEN p
    ELSE LET q == [p EXCEPT !.x = @ + MulMilli(SinDir(p.direction), p.speed),
                            !.y = @ + MulMilli(CosDir(p.direction), p.speed)]
             r == JumpArc(q)
         IN [r EXCEPT !.powerUpTimer = PowerUpTick(@)]

---------------------------------------------------------------------------
(* update(), step 3: entity management (lines 1947-1987) *)

BottomEdge(p) == p.y + CANVAS_HEIGHT
TopEdge(p) == p.y - CANVAS_HEIGHT \div 2

\* lines 1951-1952: drop what lies above the active window
Cull(seq, p) == LET Keep(e) == e.y > TopEdge(p) IN SelectSeq(seq, Keep)

\* lines 1956-1974: one projectile re-aimed at the Yeti's centre and moved
Homing(proj, yeti) ==
    LET dx == yeti.x + 20000 - proj.x
        dy == yeti.y + 25000 - proj.y
        dist == Dist(dx, dy)
        steer == yeti # Null /\ dist > 0
        vx == IF steer THEN Along(dx, dist, PROJECTILE_SPEED) ELSE proj.vx
        vy == IF steer THEN Along(dy, dist, PROJECTILE_SPEED) ELSE proj.vy
    IN [proj EXCEPT !.vx = vx, !.vy = vy, !.x = @ + vx, !.y = @ + vy]

\* lines 1977-1982: the range a projectile may stray from the player
InRange(proj, p, yeti) ==
    LET boundMargin == IF yeti # Null THEN 1000000 ELSE 500000
    IN /\ proj.x > p.x - boundMargin /\ proj.x < p.x + boundMargin
       /\ proj.y > p.y - boundMargin /\ proj.y < p.y + boundMargin

MoveProjectiles(projs, p, yeti) ==
    LET moved == [i \in 1..Len(projs) |-> Homing(projs[i], yeti)]
        Keep(q) == InRange(q, p, yeti)
    IN SelectSeq(moved, Keep)

\* line 1984
LastEntityY(entities) ==
    IF Len(entities) > 0 THEN entities[Len(entities)].y ELSE 0

\* line 1985
NeedsSpawn(entities, p) == LastEntityY(entities) < BottomEdge(p) + 500000

\* SpawnStartY without the viewport edge: generation resumes at the last entity
SpawnStartYAtLast(entities, p) == LastEntityY(entities)

\* the first argument of the call of line 1986
SpawnStartY(entities, p) == Max(LastEntityY(entities), BottomEdge(p))

---------------------------------------------------------------------------
(* spawnEntities (lines 1648-1754).  Every Math.random() is a roll in      *)
(* thousandths.  Of the rolls of one call at most one gameplay entity and  *)
(* at most one ground feature succeed, in the first row, and none once the   *)
(* store is at its capacity.                                               *)

\* rolls compared with a spawn chance: a hit and a miss
ChanceRolls == {0, 999}
\* rolls deciding the obstacle type
TypeRolls == {50, 500, 900, 990}
\* rolls of spawnX: 12 px left of the player
XRolls == {495}
\* rolls of the offset below the row
YRolls == {0}
\* rolls deciding the variant of a ground feature
VariantRolls == {700}

\* line 1652
DifficultyTier(startY) == startY \div 2000000

\* an obstacle chance without the cap of line 1659
ObstacleChanceUncapped(tier) == 150 + tier * 50

\* lines 1658-1660
ObstacleChance(tier) == 150 + Min(tier * 50, 600)

\* lines 1663-1665
PowerUpChance(tier) == 30 + Min(tier * 10, 100)

\* line 1675
MoundChance(tier) == 100 + Min(tier * 150, 800)

\* lines 1671-1679
ObstacleType(typeRoll, tier) ==
    IF typeRoll < MoundChance(tier) THEN "SNOW_MOUND"
    ELSE IF typeRoll > 800 THEN "ROCK"
    ELSE IF typeRoll > 950 THEN "STUMP"
    ELSE "TREE"

\* line 1667
SpawnX(playerX, xRoll) ==
    playerX + MulMilli(xRoll, 3 * CANVAS_WIDTH) - (3 * CANVAS_WIDTH) \div 2

\* the rows of the loop of line 1655 the model rolls in: the first one
SpawnRows(startY, endY) == IF startY >= endY THEN {} ELSE {startY}

Entity(type, x, y, w, h) ==
    [type |-> type, x |-> x, y |-> y, width |-> w, height |-> h]

\* the gameplay entities one row can push (lines 1669-1725), one at a time
RowEntities(y, tier, playerX) ==
    LET at(xRoll, yRoll, type, w, h) ==
            Entity(type, SpawnX(playerX, xRoll), y + MulMilli(yRoll, 50000), w, h)
    IN  {at(xr, yr, ObstacleType(tr, tier), 24000, 24000) :
            xr \in XRolls, yr \in YRolls,
            tr \in {t \in TypeRolls : \E r \in ChanceRolls : r < ObstacleChance(tier)}}
        \cup {at(xr, yr, "BOOST_PAD", 20000, 30000) :
            xr \in XRolls,
            yr \in {v \in YRolls : \E r \in ChanceRolls : r < PowerUpChance(tier) * 2}}
        \cup {at(xr, yr, "SUPER_MUSHROOM", 20000, 20000) :
            xr \in XRolls,
            yr \in {v \in YRolls : \E r \in ChanceRolls : r < PowerUpChance(tier)}}
        \cup {at(xr, yr, "COFFEE", 20000, 20000) :
            xr \in XRolls,
            yr \in {v \in YRolls : \E r \in ChanceRolls : r < PowerUpChance(tier) \div 2}}

\* the ground features one row can push (lines 1729-1753)
RowFeatures(y, playerX) ==
    {[x |-> SpawnX(playerX, xr), y |-> y + MulMilli(yr, 20000),
      variant |-> IF vr > 800 THEN "ICE" ELSE IF vr > 600 THEN "MOUND" ELSE "BUMP"] :
        xr \in XRolls, yr \in YRolls,
        vr \in {v \in VariantRolls : \E r \in ChanceRolls : r < 700}}

\* what one call appends to entitiesRef: nothing (every roll missed) or one entity
SpawnedEntities(startY, endY, playerX, entities) ==
    {<<>>} \cup
    IF Len(entities) >= MaxEntities THEN {}
    ELSE UNION {{<<e>> : e \in RowEntities(y, DifficultyTier(startY), playerX)} :
                    y \in SpawnRows(startY, endY)}

\* what one call appends to groundFeaturesRef
SpawnedFeatures(startY, endY, playerX, features) ==
    {<<>>} \cup
    IF Len(features) >= MaxGround THEN {}
    ELSE UNION {{<<f>> : f \in RowFeatures(y, playerX)} :
                    y \in SpawnRows(startY, endY)}

---------------------------------------------------------------------------
(* update(), step 4: the Yeti (lines 1989-2116) *)

\* rolls of the shake of PRE_LUNGE
ShakeRolls == {0, 999}

\* Despawns with a radius of 2000
DespawnsAt2000(p, yeti) ==
    yeti # Null /\ Dist(p.x - yeti.x, p.y - yeti.y) > 2000

\* lines 1990-1998
Despawns(p, yeti) ==
    yeti # Null /\ Dist(p.x - yeti.x, p.y - yeti.y) > 1500

\* MaySpawnYeti without the test of the player's state
MaySpawnYetiAnyState(p, yeti) ==
    p.y > YETI_MIN_SPAWN_DIST /\ yeti = Null

\* the guard of line 2001, before the roll
MaySpawnYeti(p, yeti) ==
    p.y > YETI_MIN_SPAWN_DIST /\ yeti = Null /\ Alive(p)

\* lines 2003-2013
NewYeti(p) ==
    [x |-> p.x - 300000, y |-> p.y - 400000, mode |-> "CHASE", modeTimer |-> 0,
     currentSpeed |-> YETI_BASE_SPEED]

\* line 2028: a projectile within reach of the Yeti's centre
HitsYeti(proj, yeti) ==
    Dist(yeti.x + 20000 - proj.x, yeti.y + 25000 - proj.y) < 30

RemoveAt(seq, k) == SubSeq(seq, 1, k - 1) \o SubSeq(seq, k + 1, Len(seq))

\* lines 2025-2035: forEach over the array it splices.  forEach visits the
\* indices in order up to the length it started with and skips the ones the
\* array no longer has; k is the (1-based) index visited next.
RECURSIVE HitScan(_, _, _, _)
HitScan(projs, k, hits, yeti) ==
    IF k > Len(projs) THEN [projectiles |-> projs, hits |-> hits]
    ELSE IF HitsYeti(projs[k], yeti)
         THEN HitScan(RemoveAt(projs, k), k + 1, hits + 1, yeti)
         ELSE HitScan(projs, k + 1, hits, yeti)

\* Retreat for half the time
RetreatBrief(yeti) == [yeti EXCEPT !.mode = "RETREAT", !.modeTimer = 120]

\* lines 2031-2032 and 2038-2039
Retreat(yeti) == [yeti EXCEPT !.mode = "RETREAT", !.modeTimer = YETI_SCARE_DURATION]

\* Scared for a lunging Yeti only
ScaredInLunge(p, yeti) == p.powerUpTimer > 0 /\ yeti.mode = "LUNGE"

\* lines 2037-2041
Scared(p, yeti) == p.powerUpTimer > 0 /\ yeti.mode # "RETREAT"

\* a hit radius that a lunge does not extend
HitRadiusFixed(yeti) == 10

\* line 2044
HitRadius(yeti) == IF yeti.mode = "LUNGE" THEN 30 ELSE 10

\* line 2046
Eats(p, yeti, dist) ==
    dist < HitRadius(yeti) /\ p.state # "eaten" /\ p.powerUpTimer <= 0

\* ModeStep with a lunge that starts over when its timer expires
ModeStepLungesAgain(yeti, lunges) ==
    LET timer == IF yeti.modeTimer > 0 THEN yeti.modeTimer - 1 ELSE yeti.modeTimer
        y1 == [yeti EXCEPT !.modeTimer = timer]
    IN IF timer > 0 THEN y1
       ELSE IF yeti.mode = "CHASE"
            THEN IF lunges THEN [y1 EXCEPT !.mode = "PRE_LUNGE", !.modeTimer = 30]
                 ELSE y1
       ELSE IF yeti.mode = "PRE_LUNGE"
            THEN [y1 EXCEPT !.mode = "LUNGE", !.modeTimer = 40]
       ELSE IF yeti.mode = "LUNGE"
            THEN [y1 EXCEPT !.mode = "LUNGE", !.modeTimer = 40]
       ELSE IF yeti.mode = "RETREAT"
            THEN [y1 EXCEPT !.mode = "CHASE"]
       ELSE y1

\* ModeStep without the cooldown after a lunge
ModeStepNoCooldown(yeti, lunges) ==
    LET timer == IF yeti.modeTimer > 0 THEN yeti.modeTimer - 1 ELSE yeti.modeTimer
        y1 == [yeti EXCEPT !.modeTimer = timer]
    IN IF timer > 0 THEN y1
       ELSE IF yeti.mode = "CHASE"
            THEN IF lunges THEN [y1 EXCEPT !.mode = "PRE_LUNGE", !.modeTimer = 30]
                 ELSE y1
       ELSE IF yeti.mode = "PRE_LUNGE"
            THEN [y1 EXCEPT !.mode = "LUNGE", !.modeTimer = 40]
       ELSE IF yeti.mode = "LUNGE"
            THEN [y1 EXCEPT !.mode = "CHASE", !.modeTimer = 0]
       ELSE IF yeti.mode = "RETREAT"
            THEN [y1 EXCEPT !.mode = "CHASE"]
       ELSE y1

\* lines 2052-2070: the mode timer and the mode graph; lunges says whether
\* the roll of line 2056 is below 0.02
ModeStep(yeti, lunges) ==
    LET timer == IF yeti.modeTimer > 0 THEN yeti.modeTimer - 1 ELSE yeti.modeTimer
        y1 == [yeti EXCEPT !.modeTimer = timer]
    IN IF timer > 0 THEN y1
       ELSE IF yeti.mode = "CHASE"
            THEN IF lunges THEN [y1 EXCEPT !.mode = "PRE_LUNGE", !.modeTimer = 30]
                 ELSE y1
       ELSE IF yeti.mode = "PRE_LUNGE"
            THEN [y1 EXCEPT !.mode = "LUNGE", !.modeTimer = 40]
       ELSE IF yeti.mode = "LUNGE"
            THEN [y1 EXCEPT !.mode = "CHASE", !.modeTimer = 120]
       ELSE IF yeti.mode = "RETREAT"
            THEN [y1 EXCEPT !.mode = "CHASE"]
       ELSE y1

\* line 2072
DifficultyMultiplier(p) == 1000 + (p.y \div 3000000) * 30

\* lines 2075-2093
TargetSpeed(yeti, p, dist) ==
    IF yeti.mode = "CHASE"
    THEN LET urgency == Min((dist * 1000) \div 400, 1000)
             desiredMax ==
                 MulMilli(YETI_BASE_SPEED
                            + MulMilli(YETI_TOP_SPEED - YETI_BASE_SPEED, urgency),
                          DifficultyMultiplier(p))
         IN IF desiredMax > YETI_TOP_SPEED THEN YETI_TOP_SPEED ELSE desiredMax
    ELSE IF yeti.mode = "PRE_LUNGE" THEN YETI_BASE_SPEED \div 2
    ELSE IF yeti.mode = "LUNGE" THEN (YETI_TOP_SPEED * 3) \div 2
    ELSE IF yeti.mode = "RETREAT" THEN -6000
    ELSE 0

\* lines 2084 and 2088: the sideways motion of CHASE and PRE_LUNGE
Swerve(yeti, time, shakeRoll) ==
    IF yeti.mode = "CHASE" THEN 2 * SinMilli(time * 50)
    ELSE IF yeti.mode = "PRE_LUNGE" THEN (shakeRoll - 500) * 6
    ELSE 0

\* a speed that snaps to the target
SmoothSnaps(yeti, targetSpeed) == targetSpeed

\* lines 2096-2103
Smooth(yeti, targetSpeed) ==
    LET accel == IF yeti.mode = "LUNGE" THEN 1000 ELSE YETI_ACCEL_FACTOR * 4
    IN IF yeti.currentSpeed < targetSpeed
       THEN yeti.currentSpeed + accel
       ELSE yeti.currentSpeed - YETI_ACCEL_FACTOR * 2

\* lines 2106-2114; dx, dy, dist are those of lines 2020-2022
YetiMove(yeti, dx, dy, dist) ==
    IF yeti.mode = "RETREAT" THEN [yeti EXCEPT !.y = @ + yeti.currentSpeed]
    ELSE IF dist > 5
         THEN [yeti EXCEPT !.x = @ + Along(dx, dist, yeti.currentSpeed),
                           !.y = @ + Along(dy, dist, yeti.currentSpeed)]
         ELSE yeti

\* lines 2052-2114: the Yeti's own tick when the player is not eaten
YetiAct(yeti, p, dx, dy, dist, time, lunges, shakeRoll) ==
    LET y1 == ModeStep(yeti, lunges)
        y2 == [y1 EXCEPT !.x = @ + Swerve(y1, time, shakeRoll)]
        y3 == [y2 EXCEPT !.currentSpeed = Smooth(y2, TargetSpeed(y2, p, dist))]
    IN YetiMove(y3, dx, dy, dist)

\* lines 2018-2116 for a Yeti that is there
YetiStep(p, yeti0, projs, time, lunges, shakeRoll) ==
    LET dx == p.x - yeti0.x
        dy == p.y - yeti0.y
        dist == Dist(dx, dy)
        scan == HitScan(projs, 1, 0, yeti0)
        y1 == IF scan.hits > 0 THEN Retreat(yeti0) ELSE yeti0
        y2 == IF Scared(p, y1) THEN Retreat(y1) ELSE y1
        eats == Eats(p, y2, dist)
    IN [player |-> IF eats THEN [p EXCEPT !.state = "eaten", !.speed = 0] ELSE p,
        yeti |-> IF eats \/ p.state = "eaten" THEN y2
                 ELSE YetiAct(y2, p, dx, dy, dist, time, lunges, shakeRoll),
        projectiles |-> scan.projectiles,
        hits |-> scan.hits,
        eats |-> eats,
        checked |-> y2]

---------------------------------------------------------------------------
(* checkCollision (lines 1795-1830) *)

\* lines 1813-1816: the player's hitbox, doubled under a power-up
PlayerRect(p) ==
    IF p.powerUpTimer > 0
    THEN [x |-> p.x - 16000, y |-> p.y - 30000, w |-> 32000, h |-> 60000]
    ELSE [x |-> p.x - 8000, y |-> p.y - 15000, w |-> 16000, h |-> 30000]

\* lines 1818-1822: the entity's box, the trunk only for a tree
EntityRect(e) ==
    IF e.type = "TREE"
    THEN [x |-> e.x + 8000, y |-> e.y + 15000, w |-> 8000, h |-> 10000]
    ELSE [x |-> e.x, y |-> e.y, w |-> e.width, h |-> e.height]

\* lines 1824-1829
RectsOverlap(a, b) ==
    /\ a.x < b.x + b.w
    /\ a.x + a.w > b.x
    /\ a.y < b.y + b.h
    /\ a.y + a.h > b.y

\* JumpExempt without the snow mound
JumpExemptHazardsOnly(p, e) ==
    p.state = "jumping" /\ e.type \in {"ROCK", "STUMP", "MUSHROOM"}

\* lines 1798-1805: what a jump clears
JumpExempt(p, e) ==
    p.state = "jumping" /\ e.type \in {"ROCK", "STUMP", "MUSHROOM", "SNOW_MOUND"}

\* lines 1807-1811: what a power-up shields from
PowerUpExempt(p, e) ==
    p.powerUpTimer > 0 /\ e.type \in {"TREE", "ROCK", "STUMP"}

CheckCollision(p, e) ==
    IF e.type = "SNOW_BUMP" THEN FALSE
    ELSE IF JumpExempt(p, e) THEN FALSE
    ELSE IF PowerUpExempt(p, e) THEN FALSE
    ELSE RectsOverlap(PlayerRect(p), EntityRect(e))

---------------------------------------------------------------------------
(* update(), step 5: collision (lines 2118-2155) *)

\* MoundSlow taking a fixed amount off the speed instead of a share of it
MoundSlowByAmount(speed) == speed - 650

\* a boost pad that adds to the speed instead of setting it
BoostAdds(speed) == Min(speed + PLAYER_BOOST_SPEED, GLOBAL_SPEED_LIMIT)

\* line 2126: the speed a boost pad leaves, whatever it was
Boost(speed) == PLAYER_BOOST_SPEED

\* line 2140
MoundSlow(speed) == (speed * 65) \div 100

\* line 2144: whether an overlap that is no pickup crashes the player
Fatal(p, collidedWithPad) == ~collidedWithPad /\ p.powerUpTimer <= 0

\* Crash leaving the jump height as it was
CrashKeepsHeight(p) == [p EXCEPT !.state = "crashed", !.speed = 0]

\* lines 2145-2147
Crash(p) == [p EXCEPT !.state = "crashed", !.speed = 0, !.jumpHeight = 0]

\* Resolve without the power-up shield: any overlap the jump does not clear
\* counts, and only a boost pad spares the player
ResolveUnshielded(c, e) ==
    LET p == c.player
        keep(tag) == [c EXCEPT !.kept = Append(@, e), !.effects = Append(@, tag)]
        drop(q, tag) == [c EXCEPT !.player = q, !.effects = Append(@, tag)]
        hit == /\ e.type # "SNOW_BUMP" /\ ~JumpExempt(p, e)
               /\ RectsOverlap(PlayerRect(p), EntityRect(e))
    IN IF ~hit THEN keep("none")
       ELSE IF e.type = "BOOST_PAD"
            THEN [drop([p EXCEPT !.speed = PLAYER_BOOST_SPEED], "pad")
                    EXCEPT !.collidedWithPad = TRUE]
       ELSE IF e.type = "SUPER_MUSHROOM"
            THEN drop([p EXCEPT !.powerUpTimer = POWERUP_DURATION], "mushroom")
       ELSE IF e.type = "COFFEE"
            THEN drop([p EXCEPT !.coffee = @ + COFFEE_PER_PICKUP], "coffee")
       ELSE IF e.type = "SNOW_MOUND"
            THEN IF p.powerUpTimer > 0 THEN drop(p, "moundFree")
                 ELSE drop([p EXCEPT !.speed = MoundSlow(@)], "mound")
       ELSE IF ~c.collidedWithPad
            THEN [keep("crash") EXCEPT !.player = Crash(p), !.crashes = @ + 1]
       ELSE keep("spared")

\* Resolve keeping a snow mound that a powered-up player runs over
ResolveKeepingFreeMound(c, e) ==
    LET p == c.player
        keep(tag) == [c EXCEPT !.kept = Append(@, e), !.effects = Append(@, tag)]
        drop(q, tag) == [c EXCEPT !.player = q, !.effects = Append(@, tag)]
    IN IF ~CheckCollision(p, e) THEN keep("none")
       ELSE IF e.type = "BOOST_PAD"
            THEN [drop([p EXCEPT !.speed = Boost(@)], "pad")
                    EXCEPT !.collidedWithPad = TRUE]
       ELSE IF e.type = "SUPER_MUSHROOM"
            THEN drop([p EXCEPT !.powerUpTimer = POWERUP_DURATION], "mushroom")
       ELSE IF e.type = "COFFEE"
            THEN drop([p EXCEPT !.coffee = @ + COFFEE_PER_PICKUP], "coffee")
       ELSE IF e.type = "SNOW_MOUND"
            THEN IF p.powerUpTimer > 0 THEN keep("moundFree")
                 ELSE drop([p EXCEPT !.speed = MoundSlow(@)], "mound")
       ELSE IF Fatal(p, c.collidedWithPad)
            THEN [keep("crash") EXCEPT !.player = Crash(p), !.crashes = @ + 1]
       ELSE keep("spared")

\* the callback of the filter of line 2122 on one entity; c carries the player,
\* the entities kept so far, collidedWithPad, and what happened to each entity
Resolve(c, e) ==
    LET p == c.player
        keep(tag) == [c EXCEPT !.kept = Append(@, e), !.effects = Append(@, tag)]
        drop(q, tag) == [c EXCEPT !.player = q, !.effects = Append(@, tag)]
    IN IF ~CheckCollision(p, e) THEN keep("none")
       ELSE IF e.type = "BOOST_PAD"
            THEN [drop([p EXCEPT !.speed = Boost(@)], "pad")
                    EXCEPT !.collidedWithPad = TRUE]
       ELSE IF e.type = "SUPER_MUSHROOM"
            THEN drop([p EXCEPT !.powerUpTimer = POWERUP_DURATION], "mushroom")
       ELSE IF e.type = "COFFEE"
            THEN drop([p EXCEPT !.coffee = @ + COFFEE_PER_PICKUP], "coffee")
       ELSE IF e.type = "SNOW_MOUND"
            THEN IF p.powerUpTimer > 0 THEN drop(p, "moundFree")
                 ELSE drop([p EXCEPT !.speed = MoundSlow(@)], "mound")
       ELSE IF Fatal(p, c.collidedWithPad)
            THEN [keep("crash") EXCEPT !.player = Crash(p), !.crashes = @ + 1]
       ELSE keep("spared")

RECURSIVE CollidePass(_, _)
CollidePass(c, rest) ==
    IF rest = <<>> THEN c ELSE CollidePass(Resolve(c, Head(rest)), Tail(rest))

\* step 5 as a whole
Collide(p, entities) ==
    LET c0 == [player |-> p, kept |-> <<>>, collidedWithPad |-> FALSE,
               crashes |-> 0, effects |-> <<>>]
    IN IF Alive(p) THEN CollidePass(c0, entities)
       ELSE [c0 EXCEPT !.kept = entities]

---------------------------------------------------------------------------
(* The commentary service (geminiService.ts) and the host's announcer line *)

\* part_000 line 5
MAX_HIGH_SCORES == 5

\* the leaderboard of a browser that has stored none (part_000 lines 27-31)
DefaultScores ==
    <<[name |-> "YETI", score |-> 2000], [name |-> "SKI", score |-> 1000],
      [name |-> "DEV", score |-> 500]>>

\* App's first commentary (part_000 line 13)
Welcome == "Welcome to SkiFree React! Watch out for the Yeti."

\* the catch-all answer of line 71
CableText == "The Yeti disconnected the API cable."

\* the cooldown of line 66, 60000 ms, in steps of 30 s
Cooldown == 2

\* e.type.toLowerCase() of line 2149, on the types that can crash a player
ToLowerCase(type) ==
    CASE type = "TREE" -> "tree"
      [] type = "ROCK" -> "rock"
      [] type = "STUMP" -> "stump"
      [] OTHER -> "mushroom"

\* lines 12-17; cause is "" when the caller gives none
getFallbackCommentary(event, cause) ==
    IF event = "eaten" THEN "OM NOM NOM! The Yeti is full."
    ELSE IF event = "crash"
         THEN CASE cause = "tree" -> "Ouch! That looked painful. (Hit tree)"
                [] cause = "rock" -> "Ouch! That looked painful. (Hit rock)"
                [] cause = "stump" -> "Ouch! That looked painful. (Hit stump)"
                [] cause = "mushroom" -> "Ouch! That looked painful. (Hit mushroom)"
                [] OTHER -> "Ouch! That looked painful. (Hit something)"
    ELSE IF event = "highscore" THEN "New Record! Amazing skiing!"
    ELSE "SkiFree: Watch out for the Yeti!"

\* what the provider can answer to generateContent (line 50): a response with
\* a text, a response without one, or an error with a message
Answers ==
    {[kind |-> "text", text |-> t] : t \in {"Powder day!", " Powder day! ", "  "}}
    \cup {[kind |-> "noText", text |-> ""]}
    \cup {[kind |-> "error", text |-> m] :
            m \in {"429 Too Many Requests", "RESOURCE_EXHAUSTED", "fetch failed"}}

\* String.prototype.trim on the sampled texts
Trim(text) ==
    CASE text = " Powder day! " -> "Powder day!"
      [] text = "  " -> ""
      [] OTHER -> text

\* the test of line 63 on the sampled error messages
SignalsRateLimit(answer) ==
    answer.kind = "error" /\ answer.text \in {"429 Too Many Requests", "RESOURCE_EXHAUSTED"}

\* why a call got the result it got
Why(answer) ==
    IF answer.kind = "text" THEN (IF Trim(answer.text) # "" THEN "text" ELSE "noText")
    ELSE IF answer.kind = "noText" THEN "noText"
    ELSE IF SignalsRateLimit(answer) THEN "quota" ELSE "error"

\* Completion answering every failure with the event's fallback line
CompletionAlwaysFallback(call, answer) ==
    IF Why(answer) = "text" THEN Trim(answer.text)
    ELSE getFallbackCommentary(call.event, call.cause)

\* what generateGameCommentary returns once the provider has answered
\* (lines 58-71)
Completion(call, answer) ==
    LET why == Why(answer)
    IN IF why = "text" THEN Trim(answer.text)
       ELSE IF why = "error" THEN CableText
       ELSE getFallbackCommentary(call.event, call.cause)

\* the record of a result
Told(call, why, value) ==
    [event |-> call.event, cause |-> call.cause, why |-> why, value |-> value]

NoTold == [event |-> "", cause |-> "", why |-> "", value |-> ""]

\* lines 24-31: whether a call is answered at once, without the provider
AnsweredAtOnce == isRateLimited \/ ~apiKey

\* the generateGameCommentary calls of one update(), in order: eaten
\* (line 2050), then one per crash (line 2149)
RECURSIVE CrashCalls(_, _, _)
CrashCalls(store, effects, i) ==
    IF i > Len(effects) THEN <<>>
    ELSE (IF effects[i] = "crash"
          THEN <<[event |-> "crash", cause |-> ToLowerCase(store[i].type)]>>
          ELSE <<>>)
         \o CrashCalls(store, effects, i + 1)

Requests(o) ==
    (IF o.eats THEN <<[event |-> "eaten", cause |-> ""]>> ELSE <<>>)
    \o CrashCalls(o.store, o.effects, 1)

\* the last line update() hands to onCommentary itself (lines 2014, 2033,
\* 2040, 2063), "" when it hands none; yeti is the Yeti before the tick and
\* after is the Yeti it leaves
TickSays(o, yeti, after) ==
    LET modeBefore == IF o.yetiSpawned THEN "CHASE" ELSE yeti.mode
    IN IF /\ o.yetiAtCheck # Null /\ ~o.eats /\ o.afterMove.state # "eaten"
          /\ o.yetiAtCheck.mode = "PRE_LUNGE" /\ after.mode = "LUNGE"
       THEN "LUNGE!"
       ELSE IF /\ o.yetiAtCheck # Null /\ o.hits = 0
               /\ o.afterMove.powerUpTimer > 0 /\ modeBefore # "RETREAT"
       THEN "The Yeti is scared of your size!"
       ELSE IF o.hits > 0 THEN "CAFFEINE OVERLOAD! Yeti is retreating!"
       ELSE IF o.yetiSpawned THEN "RROOOAAAARRRR! The Yeti has spotted you!"
       ELSE ""

\* the host's effect of part_000 lines 38-49, after gameState and score became
\* gs and sc
CheckHighScore(gs, sc) ==
    IF gs \in {"CRASHED", "EATEN"} /\ ~hasCheckedHighScore
    THEN LET lowestScore == IF Len(highScores) < MAX_HIGH_SCORES THEN 0
                            ELSE highScores[Len(highScores)].score
         IN /\ isNewHighScore' = (isNewHighScore \/ sc > lowestScore)
            /\ hasCheckedHighScore' = TRUE
    ELSE UNCHANGED <<isNewHighScore, hasCheckedHighScore>>

\* what update() leaves in the host and the service: the score (line 2162),
\* the announcer's line, the commentary calls and the high score check
Announce ==
    LET reqs == Requests(obs')
        said == TickSays(obs', yetiRef, yetiRef')
        last == reqs[Len(reqs)]
    IN /\ score' = scoreRef'
       /\ IF reqs # <<>> /\ AnsweredAtOnce
          THEN /\ commentary' = getFallbackCommentary(last.event, last.cause)
               /\ told' = Told(last, IF isRateLimited THEN "limited" ELSE "noKey",
                               getFallbackCommentary(last.event, last.cause))
               /\ calls' = calls
          ELSE /\ commentary' = IF said # "" THEN said ELSE commentary
               /\ calls' = calls \o reqs
               /\ told' = told
       /\ CheckHighScore(gameState', scoreRef')
       /\ UNCHANGED <<highScores, playerName, apiKey, isRateLimited, timers, sinceSignal>>

---------------------------------------------------------------------------
(* resetGame (lines 1832-1843) and the effects that call it (lines 2243-2269) *)

\* the first effect's test (line 2250)
MountResets(gs, sc) == gs = "PLAYING" /\ sc = 0

\* RestartResets looking for a crash only
RestartResetsAfterCrash(gs, p) == gs = "PLAYING" /\ p.state = "crashed"

\* the second effect's test (line 2266)
RestartResets(gs, p) == gs = "PLAYING" /\ (p.state = "crashed" \/ p.state = "eaten")

\* ResetGame appending to the entities already there instead of replacing them
ResetGameAppending ==
    \E newE \in SpawnedEntities(200000, 1000000, InitialPlayer.x, <<>>),
       newG \in SpawnedFeatures(200000, 1000000, InitialPlayer.x, <<>>) :
        /\ playerRef' = InitialPlayer
        /\ entitiesRef' = entitiesRef \o newE
        /\ projectilesRef' = <<>>
        /\ groundFeaturesRef' = newG
        /\ scoreRef' = 0
        /\ yetiRef' = Null
        /\ obs' = [NoObs EXCEPT !.kind = "reset",
                                !.resets = IF obs.kind = "reset" THEN 2 ELSE 1]
        /\ UNCHANGED <<timeRef, lastFireTimeRef>>

\* resetGame: everything it assigns; the frame counter, the fire debounce and
\* the key flags are not among it
ResetGame ==
    \E newE \in SpawnedEntities(200000, 1000000, InitialPlayer.x, <<>>),
       newG \in SpawnedFeatures(200000, 1000000, InitialPlayer.x, <<>>) :
        /\ playerRef' = InitialPlayer
        /\ entitiesRef' = newE
        /\ projectilesRef' = <<>>
        /\ groundFeaturesRef' = newG
        /\ scoreRef' = 0
        /\ yetiRef' = Null
        /\ obs' = [NoObs EXCEPT !.kind = "reset",
                                !.resets = IF obs.kind = "reset" THEN 2 ELSE 1]
        /\ UNCHANGED <<timeRef, lastFireTimeRef>>

\* the call of line 1842.  Answered at once, the fallback line reaches the
\* host before anything else runs; when that changes the announcer's line the
\* host renders again, the first effect runs again with the game still at
\* score 0 and resetGame runs a second time, replacing all the first has set.
AskStart ==
    LET call == [event |-> "start", cause |-> ""]
    IN IF AnsweredAtOnce
       THEN /\ commentary' = getFallbackCommentary("start", "")
            /\ told' = Told(call, IF isRateLimited THEN "limited" ELSE "noKey",
                            getFallbackCommentary("start", ""))
            /\ calls' = calls
       ELSE /\ Len(calls) < MaxCalls
            /\ calls' = Append(calls, call)
            /\ UNCHANGED <<commentary, told>>

\* both effects, run in order after gameState became gs.  After the first
\* has reset, the player is skiing and the second does nothing.
RunEffects(gs) ==
    IF MountResets(gs, scoreRef) \/ RestartResets(gs, playerRef)
    THEN ResetGame /\ AskStart
    ELSE UNCHANGED <<simVars, obs, commentary, calls, told>>

---------------------------------------------------------------------------
(* The host (App) and the keyboard *)

\* startGame, behind the buttons of the menu and game-over overlays
StartGame ==
    /\ gameState \in {"MENU", "CRASHED", "EATEN"}
    /\ gameState' = "PLAYING"
    /\ score' = 0
    /\ isNewHighScore' = FALSE
    /\ hasCheckedHighScore' = FALSE
    /\ RunEffects("PLAYING")
    /\ UNCHANGED <<inputRef, requestRef>>
    /\ UNCHANGED <<highScores, playerName, apiKey, isRateLimited, timers, sinceSignal>>

\* the gameState prop set to PAUSED by the host
Pause ==
    /\ gameState = "PLAYING"
    /\ gameState' = "PAUSED"
    /\ RunEffects("PAUSED")
    /\ UNCHANGED <<inputRef, requestRef>>
    /\ UNCHANGED <<score, highScores, isNewHighScore, hasCheckedHighScore, playerName,
                   apiKey, isRateLimited, timers, sinceSignal>>

\* the gameState prop set back to PLAYING
Resume ==
    /\ gameState = "PAUSED"
    /\ gameState' = "PLAYING"
    /\ RunEffects("PLAYING")
    /\ score' = IF MountResets("PLAYING", scoreRef) THEN 0 ELSE score
    /\ UNCHANGED <<inputRef, requestRef>>
    /\ UNCHANGED <<highScores, isNewHighScore, hasCheckedHighScore, playerName,
                   apiKey, isRateLimited, timers, sinceSignal>>

\* handleKeyDown (line 2244)
KeyDown ==
    \E k \in Keys \ inputRef :
        /\ requestRef < MaxFrames
        /\ inputRef \cup {k} \in KeySets
        /\ inputRef' = inputRef \cup {k}
        /\ UNCHANGED <<gameState, simVars, requestRef, obs, appVars>>

\* handleKeyUp (line 2245)
KeyUp ==
    \E k \in inputRef :
        /\ requestRef < MaxFrames
        /\ inputRef' = inputRef \ {k}
        /\ UNCHANGED <<gameState, simVars, requestRef, obs, appVars>>

---------------------------------------------------------------------------
(* update() as a whole (lines 1846-2166), run by the animation frame callback *)

\* a test of line 1847 that never finds the game paused
PausedNever(gs) == FALSE

\* the test of line 1847
Paused(gs) == gs = "PAUSED"

Update ==
    \E inp \in {PlayerInput(playerRef, inputRef, timeRef, lastFireTimeRef)} :
    \E p2 \in {PlayerMove(inp.player)} :
    \E ents1 \in {Cull(entitiesRef, p2)}, ground1 \in {Cull(groundFeaturesRef, p2)} :
    LET projs1 == IF inp.fired
                  THEN Append(projectilesRef, NewProjectile(playerRef, yetiRef))
                  ELSE projectilesRef
        projs2 == MoveProjectiles(projs1, p2, yetiRef)
        needs == NeedsSpawn(ents1, p2)
        startY == SpawnStartY(ents1, p2)
        endY == BottomEdge(p2) + 500000
        despawns == Despawns(p2, yetiRef)
        yeti1 == IF despawns THEN Null ELSE yetiRef
        maySpawn == MaySpawnYeti(p2, yeti1)
    IN \E newE \in (IF needs THEN SpawnedEntities(startY, endY, p2.x, ents1) ELSE {<<>>}),
          newG \in (IF needs THEN SpawnedFeatures(startY, endY, p2.x, ground1) ELSE {<<>>}),
          spawnRoll \in (IF maySpawn THEN ChanceRolls ELSE {999}) :
        LET ents2 == ents1 \o newE
            spawns == maySpawn /\ spawnRoll < 10
            yeti2 == IF spawns THEN NewYeti(p2) ELSE yeti1
            rollsLunge == yeti2.mode = "CHASE" /\ yeti2.modeTimer <= 1
            rollsShake == yeti2.mode = "PRE_LUNGE" \/ rollsLunge
        IN \E lungeRoll \in (IF rollsLunge THEN ChanceRolls ELSE {999}),
              shakeRoll \in (IF rollsShake THEN ShakeRolls ELSE {500}) :
           \E ys \in {IF yeti2 # Null
                      THEN YetiStep(p2, yeti2, projs2, timeRef, lungeRoll < 20, shakeRoll)
                      ELSE [player |-> p2, yeti |-> Null, projectiles |-> projs2,
                            hits |-> 0, eats |-> FALSE, checked |-> Null]} :
           \E col \in {Collide(ys.player, ents2)} :
               /\ playerRef' = col.player
               /\ entitiesRef' = col.kept
               /\ projectilesRef' = ys.projectiles
               /\ groundFeaturesRef' = ground1 \o newG
               /\ yetiRef' = ys.yeti
               /\ scoreRef' = Floor(col.player.y)
               /\ timeRef' = timeRef + 1
               /\ lastFireTimeRef' = IF inp.fired THEN timeRef ELSE lastFireTimeRef
               /\ gameState' = IF col.crashes > 0 THEN "CRASHED"
                               ELSE IF ys.eats THEN "EATEN" ELSE gameState
               /\ obs' = [kind |-> "tick", resets |-> 0,
                          landed |-> Alive(inp.player) /\ Lands(inp.player),
                          afterMove |-> p2,
                          genCalled |-> needs, genAdded |-> Len(newE),
                          atCollision |-> ys.player, store |-> ents2,
                          effects |-> col.effects, crashes |-> col.crashes,
                          yetiSpawned |-> spawns, yetiDespawned |-> despawns,
                          fired |-> inp.fired, hits |-> ys.hits, eats |-> ys.eats,
                          yetiAtCheck |-> ys.checked, keys |-> inputRef]

\* the frame callback of lines 2236-2239: update(), then render() requests the
\* next frame; update() returns at once while paused (line 1847)
Tick ==
    /\ requestRef < MaxFrames
    /\ requestRef' = requestRef + 1
    /\ UNCHANGED inputRef
    /\ IF Paused(gameState)
       THEN UNCHANGED <<gameState, simVars, obs, appVars>>
       ELSE Update /\ Announce

---------------------------------------------------------------------------
(* The program from its construction *)

\* the host and the service with the given score and announcer's line: the
\* stored leaderboard loaded and no API key configured, so that every line
\* asked for is answered at once (lines 28-31)
App(sc, line) ==
    /\ score = sc
    /\ highScores = DefaultScores
    /\ isNewHighScore = FALSE
    /\ hasCheckedHighScore = FALSE
    /\ playerName = ""
    /\ commentary = line
    /\ calls = <<>>
    /\ apiKey = FALSE
    /\ isRateLimited = FALSE
    /\ timers = <<>>
    /\ sinceSignal = -1
    /\ told = NoTold

Init ==
    /\ gameState = "MENU"
    /\ playerRef = InitialPlayer
    /\ entitiesRef = <<>>
    /\ projectilesRef = <<>>
    /\ groundFeaturesRef = <<>>
    /\ scoreRef = 0
    /\ yetiRef = Null
    /\ timeRef = 0
    /\ lastFireTimeRef = 0
    /\ inputRef = {}
    /\ requestRef = 0
    /\ obs = NoObs
    /\ App(0, Welcome)

Next == StartGame \/ Pause \/ Resume \/ KeyDown \/ KeyUp \/ Tick

Spec == Init /\ [][Next]_vars

---------------------------------------------------------------------------
(* The program in mid-session.  The initial states are states a session    *)
(* reaches after many ticks: the player under way on the slope, what the   *)
(* generator put in its way, a Yeti on its heels.  Each is the state one   *)
(* tick left behind; MaxFrames frames are explored from it.                *)

\* jump height and velocity k ticks after take-off (lines 1889, 1935-1936)
JumpPhase(k) ==
    [jumpHeight |-> JUMP_STRENGTH * k - (GRAVITY \div 2) * k * (k - 1),
     jumpVelocity |-> JUMP_STRENGTH - GRAVITY * k]

\* a player under way; k = 0 is skiing, k > 0 the k-th tick of a jump
Skier(y, speed, direction, k, powerUpTimer, coffee) ==
    [x |-> CANVAS_WIDTH \div 2, y |-> y, speed |-> speed, direction |-> direction,
     state |-> IF k = 0 THEN "skiing" ELSE "jumping",
     jumpHeight |-> IF k = 0 THEN 0 ELSE JumpPhase(k).jumpHeight,
     jumpVelocity |-> IF k = 0 THEN 0 ELSE JumpPhase(k).jumpVelocity,
     powerUpTimer |-> powerUpTimer, coffee |-> coffee]

\* the box sizes spawnEntities gives each type (lines 1686-1723)
Sized(type, x, y) ==
    IF type \in {"TREE", "ROCK", "STUMP", "SNOW_MOUND"} THEN Entity(type, x, y, 24000, 24000)
    ELSE IF type = "BOOST_PAD" THEN Entity(type, x, y, 20000, 30000)
    ELSE Entity(type, x, y, 20000, 20000)

\* an entity of the given type that p's hitbox touches from above: no overlap
\* where p stands, an overlap as soon as p has moved down
Ahead(type, p) ==
    LET reach == IF p.powerUpTimer > 0 THEN 30000 ELSE 15000
        top == IF type = "TREE" THEN p.y + reach - 15000 ELSE p.y + reach
    IN Sized(type, p.x - 12000, top)

\* the entity generated last: beyond the lookahead margin, far to the side
Horizon(p) == Sized("TREE", p.x + 960000, p.y + 1180000)

\* the depth of the snapshots without and with a Yeti
SlopeY == 10 * InitialPlayer.y
YetiY == YETI_MIN_SPAWN_DIST + 500000

\* speeds a session passes through (nearly at rest after snow mounds,
\* accelerating, cruising, around the normal maximum, boosted), headings and
\* the ticks of a jump (0: on skis)
SpeedSamples == {250, 5000, 10000, 19900, 20000, 23750}
DirectionSamples == {-2000, -1800, 0, 200, 2000}
JumpSamples == {0, 1, 20, 40}

Snapshot(p, entities, projectiles, yeti, keys) ==
    [player |-> p, entities |-> entities, projectiles |-> projectiles,
     yeti |-> yeti, keys |-> keys]

\* the open slope: every sampled speed, heading and jump phase
SlopeSnapshots ==
    {LET p == Skier(SlopeY, s, d, k, 0, 0)
     IN Snapshot(p, <<Horizon(p)>>, <<>>, Null, {}) :
        s \in SpeedSamples, d \in DirectionSamples, k \in JumpSamples}
    \cup
    {LET p == Skier(SlopeY, 10000, d, 0, 0, 0)
     IN Snapshot(p, <<Horizon(p)>>, <<>>, Null, {"ArrowLeft", "ArrowRight"}) :
        d \in DirectionSamples}

\* what lies in the player's way, in array order
StoreSamples ==
    {<<"TREE">>, <<"ROCK">>, <<"SNOW_MOUND">>, <<"BOOST_PAD">>,
     <<"SUPER_MUSHROOM">>, <<"COFFEE">>,
     <<"BOOST_PAD", "TREE">>, <<"TREE", "BOOST_PAD">>,
     <<"SUPER_MUSHROOM", "TREE">>, <<"TREE", "TREE">>,
     <<"BOOST_PAD", "SNOW_MOUND">>, <<"SNOW_MOUND", "BOOST_PAD">>}

\* entities about to be hit, with and without a power-up, skiing and in the
\* air; a second boost pad right after a first
CollisionSnapshots ==
    {LET p == Skier(SlopeY, s, 0, k, t, 0)
     IN Snapshot(p, [i \in 1..Len(types) |-> Ahead(types[i], p)] \o <<Horizon(p)>>,
                 <<>>, Null, {}) :
        s \in {250, 10000}, k \in {0, 20}, t \in {0, 1, 100}, types \in StoreSamples}
    \cup
    {LET p == Skier(SlopeY, PLAYER_BOOST_SPEED, 0, 0, 0, 0)
     IN Snapshot(p, <<Ahead("BOOST_PAD", p), Horizon(p)>>, <<>>, Null, {})}

\* a store whose last entity is inside the lookahead margin, or about to go
WorldSnapshots ==
    {LET p == Skier(SlopeY, 10000, 0, 0, 0, 0)
     IN Snapshot(p, st, <<>>, Null, {}) :
        st \in {<<>>,
                <<Sized("TREE", 400000, SlopeY + 300000)>>,
                <<Sized("ROCK", 400000, SlopeY - 299000)>>,
                <<Sized("COFFEE", 388000, SlopeY + 15000)>>}}

\* a Yeti: mode, timer and smoothed speed
YetiSamples ==
    {<<"CHASE", 0, 15000>>, <<"CHASE", 1, 21250>>, <<"CHASE", 120, 31000>>,
     <<"PRE_LUNGE", 1, 7500>>, <<"PRE_LUNGE", 30, 15000>>,
     <<"LUNGE", 1, 31875>>, <<"LUNGE", 40, 8500>>, <<"LUNGE", 20, 31800>>,
     <<"RETREAT", 1, -6000>>, <<"RETREAT", 239, 14760>>}

\* the modes a Yeti can be in while the player holds a power-up
ScaredSamples == {<<"CHASE", 0, -6000>>, <<"RETREAT", 1, -6000>>, <<"RETREAT", 239, 14760>>}

\* where the Yeti stands relative to the player: within any reach, within the
\* reach of a lunge, where it spawns, at the despawn radius
YetiOffsets ==
    {<<0, 5000>>, <<0, -10000>>, <<-300000, -400000>>, <<0, -1495000>>}

YetiAt(p, off, m) ==
    [x |-> p.x + off[1], y |-> p.y + off[2], mode |-> m[1], modeTimer |-> m[2],
     currentSpeed |-> m[3]]

\* a thrown cup d pixels below the Yeti's centre
Cup(yeti, d) ==
    [type |-> "COFFEE_CUP", x |-> yeti.x + 20000, y |-> yeti.y + 25000 + d,
     vx |-> 0, vy |-> -PROJECTILE_SPEED]

YetiSnapshots ==
    {LET p == Skier(YetiY, 10000, 0, 0, 0, 0)
     IN Snapshot(p, <<Horizon(p)>>, <<>>, YetiAt(p, off, m), {}) :
        off \in YetiOffsets, m \in YetiSamples}
    \cup
    {LET p == Skier(YetiY, 10000, 0, 0, 100, 0)
     IN Snapshot(p, <<Horizon(p)>>, <<>>, YetiAt(p, off, m), {}) :
        off \in YetiOffsets, m \in ScaredSamples}
    \cup
    {LET p == Skier(YetiY, 10000, 0, 0, 0, c)
         yeti == YetiAt(p, <<-300000, -400000>>, m)
     IN Snapshot(p, <<Horizon(p)>>, [i \in 1..n |-> Cup(yeti, 35000 + 5000 * i)],
                 yeti, {}) :
        m \in {<<"CHASE", 0, 15000>>, <<"PRE_LUNGE", 30, 15000>>, <<"LUNGE", 40, 8500>>},
        n \in {1, 2}, c \in {0, 1}}
    \cup
    {LET p == Skier(YetiY, 10000, 0, k, 0, 1)
     IN Snapshot(p, <<Horizon(p)>>, <<>>, Null, {}) : k \in {0, 20}}
    \cup
    \* in the air with the Yeti within reach
    {LET p == Skier(YetiY, 10000, 0, 20, 0, 0)
     IN Snapshot(p, <<Horizon(p)>>, <<>>, YetiAt(p, <<0, 5000>>, m), {}) :
        m \in {<<"CHASE", 0, 15000>>, <<"LUNGE", 1, 31875>>}}
    \cup
    \* the Yeti at the player's heels, coffee in hand and the fire key held
    {LET p == Skier(YetiY, 10000, 0, 0, 0, 1)
     IN Snapshot(p, <<Horizon(p)>>, <<>>,
                 YetiAt(p, <<0, -4000>>, <<"CHASE", 120, 15000>>), {"Space"})}
    \cup
    \* a tree in the way, with the Yeti close behind or nowhere
    {LET p == Skier(YetiY, 10000, 0, 0, 0, 0)
     IN Snapshot(p, <<Ahead("TREE", p), Horizon(p)>>, <<>>, yeti, {}) :
        yeti \in {Null,
                  YetiAt(Skier(YetiY, 10000, 0, 0, 0, 0), <<0, -10000>>, <<"CHASE", 1, 21250>>),
                  YetiAt(Skier(YetiY, 10000, 0, 0, 0, 0), <<0, -10000>>, <<"RETREAT", 239, 14760>>)}}

Snapshots == SlopeSnapshots \cup CollisionSnapshots \cup WorldSnapshots \cup YetiSnapshots

InitSession ==
    \E snap \in Snapshots :
        /\ gameState = "PLAYING"
        /\ playerRef = snap.player
        /\ entitiesRef = snap.entities
        /\ projectilesRef = snap.projectiles
        /\ groundFeaturesRef = <<>>
        /\ scoreRef = Floor(snap.player.y)
        /\ yetiRef = snap.yeti
        /\ timeRef = 500
        /\ lastFireTimeRef = 0
        /\ inputRef = snap.keys
        /\ requestRef = 0
        /\ obs = NoObs
        /\ App(Floor(snap.player.y),
               IF snap.yeti # Null THEN "RROOOAAAARRRR! The Yeti has spotted you!"
               ELSE getFallbackCommentary("start", ""))

SpecSession == InitSession /\ [][Next]_vars

---------------------------------------------------------------------------
(* The commentary service under way: calls the provider has not answered   *)
(* yet, the cooldown timers of line 66 and the time that passes between    *)
(* them                                                                    *)

\* a sequence without its i-th element
Without(seq, i) == SubSeq(seq, 1, i - 1) \o SubSeq(seq, i + 1, Len(seq))

\* The provider answers one of the calls under way (line 50 returns or
\* throws), generateGameCommentary returns (lines 58-71) and the caller's
\* then-callback hands the result to handleCommentary (part_000 lines 74-76).
\* A line that differs from the one shown makes App render again with a new
\* handleCommentary, so update and render are new callbacks and the first
\* effect (lines 2243-2263) runs again: with the game PLAYING at score 0 it
\* calls resetGame once more, which asks for a 'start' line again.
Settle ==
    \E i \in 1..Len(calls), answer \in Answers :
        LET call == calls[i]
            value == Completion(call, answer)
            quota == Why(answer) = "quota"
            start == [event |-> "start", cause |-> ""]
        IN /\ isRateLimited' = (isRateLimited \/ quota)
           /\ timers' = IF quota THEN Append(timers, Cooldown) ELSE timers
           /\ sinceSignal' = IF quota THEN 0 ELSE sinceSignal
           /\ IF value # commentary /\ MountResets(gameState, scoreRef)
              THEN /\ ResetGame
                   /\ score' = 0
                   /\ IF isRateLimited \/ quota \/ ~apiKey
                      THEN /\ commentary' = getFallbackCommentary("start", "")
                           /\ told' = Told(start, "limited",
                                           getFallbackCommentary("start", ""))
                           /\ calls' = Without(calls, i)
                      ELSE /\ commentary' = value
                           /\ told' = Told(call, Why(answer), value)
                           /\ calls' = Append(Without(calls, i), start)
              ELSE /\ commentary' = value
                   /\ told' = Told(call, Why(answer), value)
                   /\ calls' = Without(calls, i)
                   /\ UNCHANGED <<simVars, obs, score>>
           /\ UNCHANGED <<gameState, inputRef, requestRef, highScores, isNewHighScore,
                          hasCheckedHighScore, playerName, apiKey>>

\* the callback of line 66, when its 60000 ms are over
TimerFires ==
    \E i \in 1..Len(timers) :
        /\ timers[i] = 0
        /\ timers' = Without(timers, i)
        /\ isRateLimited' = FALSE
        /\ UNCHANGED <<gameState, simVars, inputRef, requestRef, obs, score, highScores,
                       isNewHighScore, hasCheckedHighScore, playerName, commentary,
                       calls, apiKey, sinceSignal, told>>

\* 30 s pass; a timer that is due fires before more time passes
Advance ==
    /\ timers # <<>>
    /\ \A i \in 1..Len(timers) : timers[i] > 0
    /\ timers' = [i \in 1..Len(timers) |-> timers[i] - 1]
    /\ sinceSignal' = IF sinceSignal < Cooldown THEN sinceSignal + 1 ELSE sinceSignal
    /\ UNCHANGED <<gameState, simVars, inputRef, requestRef, obs, score, highScores,
                   isNewHighScore, hasCheckedHighScore, playerName, commentary,
                   calls, apiKey, isRateLimited, told>>

\* sessions about to ask for a line: a player about to crash into one or two
\* hazards, a player about to be eaten
ServiceSnapshots ==
    {LET p == Skier(SlopeY, 10000, 0, 0, 0, 0)
     IN Snapshot(p, [i \in 1..Len(types) |-> Ahead(types[i], p)] \o <<Horizon(p)>>,
                 <<>>, Null, {}) :
        types \in {<<"TREE">>, <<"ROCK">>, <<"TREE", "ROCK">>}}
    \cup
    {LET p == Skier(YetiY, 10000, 0, 0, 0, 0)
     IN Snapshot(p, <<Horizon(p)>>, <<>>, YetiAt(p, <<0, 5000>>, <<"CHASE", 0, 15000>>), {})}

\* the construction state or one of the sessions, with or without an API
\* key; with a key the session's 'start' call has been answered by the
\* provider or is still under way, the welcome line on display
InitService ==
    /\ \/ /\ gameState = "MENU"
          /\ playerRef = InitialPlayer
          /\ entitiesRef = <<>>
          /\ projectilesRef = <<>>
          /\ scoreRef = 0
          /\ yetiRef = Null
          /\ timeRef = 0
          /\ commentary = Welcome
          /\ calls = <<>>
       \/ \E snap \in ServiceSnapshots :
          /\ gameState = "PLAYING"
          /\ playerRef = snap.player
          /\ entitiesRef = snap.entities
          /\ projectilesRef = snap.projectiles
          /\ scoreRef = Floor(snap.player.y)
          /\ yetiRef = snap.yeti
          /\ timeRef = 500
          /\ \/ /\ commentary \in {"Powder day!", getFallbackCommentary("start", "")}
                /\ calls = <<>>
             \/ /\ Len(snap.entities) = 2 /\ snap.entities[1].type = "TREE"
                /\ commentary = Welcome
                /\ calls = <<[event |-> "start", cause |-> ""]>>
    /\ groundFeaturesRef = <<>>
    /\ lastFireTimeRef = 0
    /\ inputRef = {}
    /\ requestRef = 0
    /\ obs = NoObs
    /\ score = scoreRef
    /\ highScores = DefaultScores
    /\ isNewHighScore = FALSE
    /\ hasCheckedHighScore = FALSE
    /\ playerName = ""
    /\ apiKey \in (IF calls = <<>> THEN BOOLEAN ELSE {TRUE})
    /\ isRateLimited = FALSE
    /\ timers = <<>>
    /\ sinceSignal = -1
    /\ told = NoTold

NextService == Tick \/ StartGame \/ Settle \/ TimerFires \/ Advance

SpecService == InitService /\ [][NextService]_vars

---------------------------------------------------------------------------
(* The leaderboard (part_000 lines 38-65) *)

\* what the player can have typed into the name field (maxLength 10)
NameSamples == {"", "  ", "ace", "ACE"}

\* String.prototype.toUpperCase on the sampled names
ToUpperCase(name) == IF name = "ace" THEN "ACE" ELSE name

\* line 55; slice(0, 10) keeps a name of at most 10 characters whole
NewEntry(name, sc) == [name |-> ToUpperCase(name), score |-> sc]

\* entry e put into a list in descending order of score, behind the entries
\* of the same score
RECURSIVE InsertSorted(_, _)
InsertSorted(sorted, e) ==
    IF sorted = <<>> THEN <<e>>
    ELSE IF sorted[Len(sorted)].score >= e.score THEN Append(sorted, e)
    ELSE Append(InsertSorted(SubSeq(sorted, 1, Len(sorted) - 1), e), sorted[Len(sorted)])

\* Array.prototype.sort with the comparator of line 57: descending by score,
\* entries of the same score in the order they had
RECURSIVE SortDesc(_)
SortDesc(list) ==
    IF list = <<>> THEN <<>>
    ELSE InsertSorted(SortDesc(SubSeq(list, 1, Len(list) - 1)), list[Len(list)])

\* Slice keeping every entry
SliceNone(list) == list

\* slice(0, MAX_HIGH_SCORES) of line 58
Slice(list) == SubSeq(list, 1, Min(Len(list), MAX_HIGH_SCORES))

\* the name field's onChange, while the entry form is shown
TypeName ==
    \E name \in NameSamples \ {playerName} :
        /\ gameState \in {"CRASHED", "EATEN"}
        /\ isNewHighScore
        /\ playerName' = name
        /\ UNCHANGED <<gameState, simVars, inputRef, requestRef, obs, score, highScores,
                       isNewHighScore, hasCheckedHighScore, commentary, calls, apiKey,
                       isRateLimited, timers, sinceSignal, told>>

\* saveHighScore, behind the entry form's submit; the effect of lines 38-49
\* runs again after it and finds the check already made
SaveHighScore ==
    /\ gameState \in {"CRASHED", "EATEN"}
    /\ isNewHighScore
    /\ obs' = [NoObs EXCEPT !.kind = "save"]
    /\ IF Trim(playerName) = ""
       THEN UNCHANGED <<highScores, isNewHighScore, playerName>>
       ELSE /\ highScores' = Slice(SortDesc(Append(highScores, NewEntry(playerName, score))))
            /\ isNewHighScore' = FALSE
            /\ playerName' = ""
    /\ UNCHANGED <<gameState, simVars, inputRef, requestRef, score, hasCheckedHighScore,
                   commentary, calls, apiKey, isRateLimited, timers, sinceSignal, told>>

\* leaderboards the program has stored: the default one and full ones whose
\* last score is above, at and below the score of the sessions below, and
\* one with that score three times
BoardSamples ==
    {DefaultScores} \cup
    {[i \in 1..5 |-> [name |-> <<"YETI", "SKI", "DEV", "ANN", "BOB">>[i], score |-> l[i]]] :
        l \in {<<5000, 4000, 3000, 2000, 1500>>, <<5000, 4000, 3000, 2000, 1010>>,
               <<5000, 4000, 3000, 2000, 500>>, <<2000, 1010, 1010, 1010, 1000>>}}

\* sessions about to end by a crash or in the Yeti's mouth, with each of the
\* leaderboards
InitScores ==
    \E snap \in ServiceSnapshots, board \in BoardSamples :
        /\ gameState = "PLAYING"
        /\ playerRef = snap.player
        /\ entitiesRef = snap.entities
        /\ projectilesRef = snap.projectiles
        /\ groundFeaturesRef = <<>>
        /\ scoreRef = Floor(snap.player.y)
        /\ yetiRef = snap.yeti
        /\ timeRef = 500
        /\ lastFireTimeRef = 0
        /\ inputRef = {}
        /\ requestRef = 0
        /\ obs = NoObs
        /\ score = scoreRef
        /\ highScores = board
        /\ isNewHighScore = FALSE
        /\ hasCheckedHighScore = FALSE
        /\ playerName = ""
        /\ commentary = "Powder day!"
        /\ calls = <<>>
        /\ apiKey = FALSE
        /\ isRateLimited = FALSE
        /\ timers = <<>>
        /\ sinceSignal = -1
        /\ told = NoTold

NextScores == Tick \/ StartGame \/ TypeName \/ SaveHighScore

SpecScores == InitScores /\ [][NextScores]_vars

---------------------------------------------------------------------------
(* Sessions with coffee in hand: the last shot long ago, 21 ticks ago, 20   *)
(* ticks ago and in the previous tick                                      *)

FireSnapshots ==
    {LET p == Skier(SlopeY, 10000, 0, 0, 0, c)
     IN Snapshot(p, st \o <<Horizon(p)>>, <<>>, Null, keys) :
        c \in {1, 2}, keys \in {{}, {"Space"}},
        st \in {<<>>, <<Ahead("COFFEE", Skier(SlopeY, 10000, 0, 0, 0, 0))>>,
                <<Ahead("TREE", Skier(SlopeY, 10000, 0, 0, 0, 0))>>}}
    \cup
    {LET p == Skier(YetiY, 10000, 0, 0, 0, c)
         yeti == YetiAt(p, off, <<"CHASE", 120, 15000>>)
     IN Snapshot(p, <<Horizon(p)>>, [i \in 1..n |-> Cup(yeti, 40000)], yeti, {"Space"}) :
        c \in {1, 2}, off \in {<<-300000, -400000>>, <<-20000, -40000>>}, n \in {0, 1}}

InitFire ==
    \E snap \in FireSnapshots, lastFire \in {0, 479, 480, 499} :
        /\ gameState = "PLAYING"
        /\ playerRef = snap.player
        /\ entitiesRef = snap.entities
        /\ projectilesRef = snap.projectiles
        /\ groundFeaturesRef = <<>>
        /\ scoreRef = Floor(snap.player.y)
        /\ yetiRef = snap.yeti
        /\ timeRef = 500
        /\ lastFireTimeRef = lastFire
        /\ inputRef = snap.keys
        /\ requestRef = 0
        /\ obs = NoObs
        /\ App(Floor(snap.player.y), getFallbackCommentary("start", ""))

SpecFire == InitFire /\ [][Next]_vars

---------------------------------------------------------------------------
(* checkCollision and the filter of line 2122 on every entity type, STUMP   *)
(* and MUSHROOM included, for a player on the ground and in the air         *)

JumpStoreSamples ==
    {<<type>> : type \in {"TREE", "ROCK", "STUMP", "MUSHROOM", "SNOW_MOUND",
                          "BOOST_PAD", "SUPER_MUSHROOM", "COFFEE"}}
    \cup {<<"TREE", "ROCK">>, <<"TREE", "SNOW_MOUND">>, <<"BOOST_PAD", "TREE">>,
          <<"SUPER_MUSHROOM", "TREE">>, <<"STUMP", "COFFEE">>}

InitJump ==
    \E k \in {0, 20}, t \in {0, 100}, types \in JumpStoreSamples :
        LET p == Skier(SlopeY, 10000, 0, k, t, 0)
        IN /\ gameState = "PLAYING"
           /\ playerRef = p
           /\ entitiesRef = [i \in 1..Len(types) |-> Ahead(types[i], p)] \o <<Horizon(p)>>
           /\ projectilesRef = <<>>
           /\ groundFeaturesRef = <<>>
           /\ scoreRef = Floor(p.y)
           /\ yetiRef = Null
           /\ timeRef = 500
           /\ lastFireTimeRef = 0
           /\ inputRef = {}
           /\ requestRef = 0
           /\ obs = NoObs
           /\ App(Floor(p.y), getFallbackCommentary("start", ""))

SpecJump == InitJump /\ [][Next]_vars

---------------------------------------------------------------------------
(* The generator at depth: sessions whose next call of spawnEntities falls  *)
(* in difficulty tiers 0, 1, 2, 5, 6, 7, 11, 12, 13 and 16, the last entity *)
(* of the store about to leave the top of the store's range, or a rock in  *)
(* the skier's way                                                         *)

DepthSamples ==
    {SlopeY} \cup {(2000 * tier - 500) * 1000 : tier \in {1, 2, 5, 6, 7, 11, 12, 13, 16}}

InitDepths ==
    \E y \in DepthSamples, ahead \in {-299000, 20000} :
        LET p == Skier(y, 10000, 0, 0, 0, 0)
        IN /\ gameState = "PLAYING"
           /\ playerRef = p
           /\ entitiesRef = <<Sized("ROCK", p.x, p.y + ahead)>>
           /\ projectilesRef = <<>>
           /\ groundFeaturesRef = <<>>
           /\ scoreRef = Floor(p.y)
           /\ yetiRef = Null
           /\ timeRef = 500
           /\ lastFireTimeRef = 0
           /\ inputRef = {}
           /\ requestRef = 0
           /\ obs = NoObs
           /\ App(Floor(p.y), getFallbackCommentary("start", ""))

\* frames, and the start button pressed in between
NextDepths == Tick \/ StartGame

SpecDepths == InitDepths /\ [][NextDepths]_vars

---------------------------------------------------------------------------
(* Properties *)

Hazards == {"TREE", "ROCK", "STUMP"}

\* whether the latest tick's collision pass had the given effect on an entity
Had(tag) == \E i \in DOMAIN obs.effects : obs.effects[i] = tag

\* the greatest y of the entities of a non-empty store
Furthest(entities) ==
    CHOOSE m \in {entities[i].y : i \in DOMAIN entities} :
        \A i \in DOMAIN entities : entities[i].y <= m

\* whether the hitbox the player has at the collision step overlaps entity e
OverlapsAtCollision(e) == RectsOverlap(PlayerRect(obs.atCollision), EntityRect(e))

\* C1: after every tick, whatever keys were held and whatever was picked up
\* or hit, the player's speed is at least 0 and at most GLOBAL_SPEED_LIMIT.
C1_SpeedInRange ==
    playerRef.speed >= 0 /\ playerRef.speed <= GLOBAL_SPEED_LIMIT

\* a tick in which a snow mound slowed a player who was nearly at rest
C1_Witness ==
    obs.kind = "tick" /\ Had("mound") /\ playerRef.speed < 250

\* C2: after every tick, whatever turn keys were held (both together
\* included), the player's direction is within [-2, 2].
C2_DirectionInRange ==
    playerRef.direction >= -2000 /\ playerRef.direction <= 2000

\* a tick with both turn keys held that ends on the right limit
C2_Witness ==
    /\ obs.kind = "tick"
    /\ {"ArrowLeft", "ArrowRight"} \subseteq inputRef
    /\ playerRef.direction = 2000

\* C3: whenever the player is jumping at the end of a tick, jumpHeight is
\* not negative; and a tick in which the integrated height reaches 0 or less
\* puts the player back on skis with jumpHeight 0 and jumpVelocity 0, and the
\* tick ends with both still 0 and the player no longer jumping.
C3_JumpLands ==
    /\ playerRef.state = "jumping" => playerRef.jumpHeight >= 0
    /\ (obs.kind = "tick" /\ obs.landed) =>
          /\ obs.afterMove.state = "skiing"
          /\ obs.afterMove.jumpHeight = 0 /\ obs.afterMove.jumpVelocity = 0
          /\ playerRef.state # "jumping"
          /\ playerRef.jumpHeight = 0 /\ playerRef.jumpVelocity = 0

\* a tick in which the player landed and skis on
C3_Witness ==
    obs.kind = "tick" /\ obs.landed /\ playerRef.state = "skiing"

\* the edges of the Yeti's mode graph other than those into RETREAT
ModeEdges ==
    {<<"CHASE", "PRE_LUNGE">>, <<"PRE_LUNGE", "LUNGE">>, <<"LUNGE", "CHASE">>,
     <<"RETREAT", "CHASE">>}

\* C4: from one tick to the next the mode of a Yeti changes only along
\* CHASE->PRE_LUNGE, PRE_LUNGE->LUNGE, LUNGE->CHASE, RETREAT->CHASE or into
\* RETREAT; a Yeti that is in LUNGE or PRE_LUNGE after a tick it began in
\* the same mode has a timer that is still running and was not restarted.
\* A Yeti spawned in the tick is another Yeti than the one before it.
C4_ModeGraph ==
    [][(yetiRef # Null /\ yetiRef' # Null /\ ~obs'.yetiSpawned) =>
          /\ yetiRef'.mode # yetiRef.mode =>
                \/ <<yetiRef.mode, yetiRef'.mode>> \in ModeEdges
                \/ yetiRef'.mode = "RETREAT"
          /\ (yetiRef'.mode = yetiRef.mode /\ yetiRef.mode \in {"LUNGE", "PRE_LUNGE"}) =>
                /\ yetiRef'.modeTimer <= yetiRef.modeTimer
                /\ yetiRef'.modeTimer >= 1]_vars

\* a tick in which the timer of PRE_LUNGE expired and the lunge began
C4_Witness ==
    /\ obs.kind = "tick" /\ ~obs.yetiSpawned
    /\ yetiRef.mode = "LUNGE" /\ yetiRef.modeTimer = 40

C6_ResetLeavesNothing ==
    obs.kind = "reset" =>
        /\ scoreRef = 0 /\ entitiesRef = <<>> /\ yetiRef = Null
        /\ playerRef.coffee = 0 /\ playerRef.powerUpTimer = 0

\* C6, amended: the state resetGame leaves, called once or twice in a row,
\* is a state one call leaves: the initial player (no coffee, no power-up),
\* score 0, no Yeti, no projectiles, and in the stores exactly what one call
\* of the generator for the rows from 200 to 1000 puts into empty stores.
C6_ResetIdempotent ==
    obs.kind = "reset" =>
        /\ playerRef = InitialPlayer
        /\ scoreRef = 0 /\ yetiRef = Null /\ projectilesRef = <<>>
        /\ entitiesRef \in SpawnedEntities(200000, 1000000, InitialPlayer.x, <<>>)
        /\ groundFeaturesRef \in SpawnedFeatures(200000, 1000000, InitialPlayer.x, <<>>)

\* resetGame called twice in a row, the second call having generated an entity
C6_Witness ==
    obs.kind = "reset" /\ obs.resets = 2 /\ entitiesRef # <<>>

\* C7: the step that takes gameState from CRASHED or EATEN to PLAYING leaves
\* the initial player, no projectiles, no Yeti and score 0, so the tick that
\* follows starts from a fully reinitialized state.
C7_RestartReinitializes ==
    [][(gameState \in {"CRASHED", "EATEN"} /\ gameState' = "PLAYING") =>
          /\ playerRef' = InitialPlayer
          /\ projectilesRef' = <<>>
          /\ yetiRef' = Null
          /\ scoreRef' = 0]_vars

\* the state a restart leaves after a crash or a meal some way down the slope,
\* with a frame still to come
C7_Witness ==
    /\ gameState = "PLAYING" /\ obs.kind = "reset" /\ playerRef = InitialPlayer
    /\ timeRef > 500 /\ requestRef < MaxFrames

\* C8: a tick while gameState is PAUSED changes neither the player nor the
\* entities, ground features, projectiles, Yeti, score or frame counter.
C8_PausedTickChangesNothing ==
    [][(gameState = "PAUSED" /\ requestRef' # requestRef) =>
          UNCHANGED <<gameState, simVars>>]_vars

\* a frame that went by while paused: the frame is counted, no tick is on record
C8_Witness ==
    gameState = "PAUSED" /\ requestRef > 0 /\ obs.kind = "none"

\* C9: in a tick in which a living player with a power-up overlaps, at the
\* collision step, a TREE, ROCK or STUMP with the enlarged hitbox, the player
\* does not crash, the hazard stays in the store, and the speed is the one
\* the player came to the step with unless a boost pad set it.
C9_PowerUpShields ==
    (/\ obs.kind = "tick" /\ Alive(obs.atCollision)
     /\ obs.atCollision.powerUpTimer > 0
     /\ \E i \in DOMAIN obs.store :
            obs.store[i].type \in Hazards /\ OverlapsAtCollision(obs.store[i])) =>
        /\ obs.crashes = 0
        /\ playerRef.state = obs.atCollision.state
        /\ gameState # "CRASHED"
        /\ \A i \in DOMAIN obs.store :
              (obs.store[i].type \in Hazards /\ OverlapsAtCollision(obs.store[i])) =>
                  \E j \in DOMAIN entitiesRef : entitiesRef[j] = obs.store[i]
        /\ ~Had("pad") => playerRef.speed = obs.atCollision.speed

\* a tick in which a player with a power-up went through a rock
C9_Witness ==
    /\ obs.kind = "tick" /\ Alive(obs.atCollision)
    /\ obs.atCollision.powerUpTimer > 0
    /\ \E i \in DOMAIN obs.store :
          obs.store[i].type = "ROCK" /\ OverlapsAtCollision(obs.store[i])
    /\ playerRef.state = "skiing"

\* C10 as stated: a tick in which a living player without a power-up
\* overlaps, at the collision step, a hazard the jump does not clear ends
\* with the player crashed, speed 0, jumpHeight 0 and gameState CRASHED.
C10_FatalOverlapCrashes ==
    (/\ obs.kind = "tick" /\ Alive(obs.atCollision)
     /\ obs.atCollision.powerUpTimer <= 0
     /\ \E i \in DOMAIN obs.store :
            /\ obs.store[i].type \in Hazards
            /\ ~JumpExempt(obs.atCollision, obs.store[i])
            /\ OverlapsAtCollision(obs.store[i])) =>
        /\ playerRef.state = "crashed"
        /\ playerRef.speed = 0
        /\ playerRef.jumpHeight = 0
        /\ gameState = "CRASHED"

\* C11 as stated: a tick resolves at most one crash, and once an entity has
\* crashed the player the entities after it in the pass have no effect: no
\* second crash, nothing picked up, no pad or mound changing the speed.
C11_OneCrashPerTick ==
    obs.kind = "tick" =>
        /\ obs.crashes <= 1
        /\ \A i \in DOMAIN obs.effects :
              obs.effects[i] = "crash" =>
                  \A j \in DOMAIN obs.effects :
                      j > i => obs.effects[j] \in {"none", "spared"}

\* the distance, in whole pixels, between the player after the move of the
\* latest tick and the Yeti the eat test of that tick saw
DistAtCheck ==
    Dist(obs.afterMove.x - obs.yetiAtCheck.x, obs.afterMove.y - obs.yetiAtCheck.y)

\* C12: the player becomes eaten in a tick exactly when, at the eat test, a
\* Yeti is present, the player is nearer to it than the hit radius (30 if the
\* Yeti is in LUNGE, otherwise 10) and powerUpTimer <= 0; the tick then ends
\* with gameState EATEN.  A player with a power-up is never eaten.
C12_EatenRule ==
    obs.kind = "tick" =>
        LET within == /\ obs.yetiAtCheck # Null
                      /\ DistAtCheck < (IF obs.yetiAtCheck.mode = "LUNGE" THEN 30 ELSE 10)
            becomes == playerRef.state = "eaten" /\ obs.afterMove.state # "eaten"
        IN /\ becomes <=> (/\ within
                           /\ obs.afterMove.powerUpTimer <= 0
                           /\ obs.afterMove.state # "eaten")
           /\ becomes => gameState = "EATEN" /\ playerRef.speed = 0
           /\ obs.afterMove.powerUpTimer > 0 => ~becomes

\* a tick in which a lunging Yeti ate the player from beyond the radius of 10
C12_Witness ==
    /\ obs.kind = "tick" /\ playerRef.state = "eaten" /\ obs.eats
    /\ obs.yetiAtCheck.mode = "LUNGE" /\ DistAtCheck >= 10

\* C13 as stated: a tick that begins with the player crashed or eaten changes
\* neither the player's state, nor the player's position, nor gameState.
C13_TerminalStays ==
    [][(~Alive(playerRef) /\ requestRef' # requestRef) =>
          /\ playerRef'.state = playerRef.state
          /\ playerRef'.x = playerRef.x /\ playerRef'.y = playerRef.y
          /\ gameState' = gameState]_vars

\* C14 as stated: whenever the player is not jumping (skiing, crashed or
\* eaten), jumpHeight and jumpVelocity are both 0.
C14_ZeroUnlessJumping ==
    playerRef.state # "jumping" =>
        playerRef.jumpHeight = 0 /\ playerRef.jumpVelocity = 0

\* C14 amended: a skiing player has jumpHeight 0 and jumpVelocity 0, and a
\* crashed player has jumpHeight 0; the values a crash or the Yeti leaves
\* behind mid-jump are the other fields of the last airborne tick.
C14_ZeroOnGround ==
    /\ playerRef.state = "skiing" =>
           playerRef.jumpHeight = 0 /\ playerRef.jumpVelocity = 0
    /\ playerRef.state = "crashed" => playerRef.jumpHeight = 0

C14_Witness ==
    /\ obs.kind = "tick" /\ obs.crashes > 0
    /\ obs.afterMove.state = "jumping" /\ obs.afterMove.jumpHeight > 0
    /\ playerRef.state = "crashed" /\ playerRef.jumpHeight = 0
    /\ playerRef.jumpVelocity # 0

\* a frame that runs update() with a Yeti further than the despawn radius from
\* the moved player
DespawnDue ==
    /\ requestRef' # requestRef /\ ~Paused(gameState)
    /\ yetiRef # Null
    /\ Dist(obs'.afterMove.x - yetiRef.x, obs'.afterMove.y - yetiRef.y) > 1500

\* C15 as stated: when the Yeti is further than 1500 from the player at the
\* despawn check of a tick, no Yeti is present when that tick ends.
C15_DespawnLeavesNone ==
    [][DespawnDue => yetiRef' = Null]_vars

\* C15 amended: when the Yeti is further than 1500 from the player at the
\* despawn check of a tick, that Yeti is removed; the tick ends with no Yeti,
\* or with a new one that the spawn rule created in the same tick, 300 to the
\* left of and 400 above a live player whose depth exceeds the spawn threshold.
C15_DespawnRemoves ==
    [][DespawnDue =>
          /\ obs'.yetiDespawned
          /\ \/ yetiRef' = Null /\ ~obs'.yetiSpawned
             \/ /\ obs'.yetiSpawned /\ yetiRef' # Null
                /\ obs'.yetiAtCheck.x = obs'.afterMove.x - 300000
                /\ obs'.yetiAtCheck.y = obs'.afterMove.y - 400000
                /\ Alive(obs'.afterMove)
                /\ obs'.afterMove.y > YETI_MIN_SPAWN_DIST]_vars

C15_Witness ==
    /\ obs.kind = "tick" /\ obs.yetiDespawned /\ ~obs.yetiSpawned
    /\ yetiRef = Null /\ Alive(obs.afterMove)
    /\ obs.afterMove.y > YETI_MIN_SPAWN_DIST

\* C16: a Yeti is created only in a tick where, at the spawn test, the player
\* is deeper than YETI_MIN_SPAWN_DIST, skiing or jumping, and no Yeti exists
\* (none before the tick, or the one there was has just been removed); a Yeti
\* appears in no other way; whenever a Yeti is present the player's depth
\* exceeds the threshold; and a tick that begins with a crashed or eaten
\* player creates none.
C16_SpawnRule ==
    [][LET ticks == requestRef' # requestRef /\ ~Paused(gameState)
           created == ticks /\ obs'.yetiSpawned
       IN /\ yetiRef # Null => playerRef.y > YETI_MIN_SPAWN_DIST
          /\ yetiRef' # Null => playerRef'.y > YETI_MIN_SPAWN_DIST
          /\ (yetiRef = Null /\ yetiRef' # Null) => created
          /\ created =>
                /\ obs'.afterMove.y > YETI_MIN_SPAWN_DIST
                /\ obs'.afterMove.state \in {"skiing", "jumping"}
                /\ Alive(playerRef)
                /\ yetiRef = Null \/ obs'.yetiDespawned
          /\ (ticks /\ ~Alive(playerRef)) => ~obs'.yetiSpawned]_vars

C16_Witness ==
    /\ obs.kind = "tick" /\ obs.yetiSpawned /\ ~obs.yetiDespawned
    /\ yetiRef # Null /\ playerRef.y > YETI_MIN_SPAWN_DIST

\* a frame that runs update() with the fire key held and no coffee
DryFire ==
    /\ requestRef' # requestRef /\ ~Paused(gameState)
    /\ playerRef.coffee = 0 /\ "Space" \in inputRef

\* the COFFEE pickups collected in the collision step of the tick recorded in o
Pickups(o) == Cardinality({i \in DOMAIN o.effects : o.effects[i] = "coffee"})

\* C17 as stated: with coffee = 0, a tick with Space held spawns no projectile
\* and leaves coffee at 0; coffee is never negative.
C17_DryFireLeavesZero ==
    [][/\ playerRef.coffee >= 0 /\ playerRef'.coffee >= 0
       /\ DryFire =>
             /\ ~obs'.fired
             /\ Len(projectilesRef') <= Len(projectilesRef)
             /\ playerRef'.coffee = 0]_vars

\* C17 amended: with coffee = 0, a tick with Space held spawns no projectile,
\* takes no coffee and does not restart the fire cooldown; coffee is still 0
\* when the collision step begins, and the tick ends with coffee equal to
\* the number of COFFEE pickups collected in that step (0 when there is none).
\* Coffee is never negative.
C17_DryFireSpawnsNothing ==
    [][/\ playerRef.coffee >= 0 /\ playerRef'.coffee >= 0
       /\ DryFire =>
             /\ ~obs'.fired
             /\ Len(projectilesRef') <= Len(projectilesRef)
             /\ lastFireTimeRef' = lastFireTimeRef
             /\ obs'.atCollision.coffee = 0
             /\ playerRef'.coffee = COFFEE_PER_PICKUP * Pickups(obs')]_vars

C17_Witness ==
    /\ obs.kind = "tick" /\ "Space" \in obs.keys /\ ~obs.fired
    /\ Alive(obs.afterMove) /\ obs.afterMove.coffee = 0
    /\ timeRef - 1 - lastFireTimeRef > 20
    /\ projectilesRef = <<>> /\ playerRef.coffee = 0

\* what the filter of line 2122 keeps of a store, given what happened to each
\* of its entities
RECURSIVE KeptFrom(_, _, _)
KeptFrom(store, effects, i) ==
    IF i > Len(store) THEN <<>>
    ELSE (IF effects[i] \in {"none", "crash", "spared"} THEN <<store[i]>> ELSE <<>>)
         \o KeptFrom(store, effects, i + 1)

\* the place in the store of the last boost pad the latest tick collided with
LastPad ==
    CHOOSE i \in DOMAIN obs.effects :
        /\ obs.effects[i] = "pad"
        /\ \A j \in DOMAIN obs.effects : obs.effects[j] = "pad" => j <= i

\* whether a snow mound slowed the player after the last boost pad
MoundAfterPad ==
    \E j \in DOMAIN obs.effects : j > LastPad /\ obs.effects[j] = "mound"

\* C18 as stated: a tick in which the player collides with a BOOST_PAD ends
\* with speed exactly PLAYER_BOOST_SPEED, and the pad is removed.
C18_PadSetsSpeed ==
    (obs.kind = "tick" /\ Had("pad")) =>
        /\ playerRef.speed = PLAYER_BOOST_SPEED
        /\ obs.store[LastPad].type = "BOOST_PAD"
        /\ entitiesRef = KeptFrom(obs.store, obs.effects, 1)

\* C18 amended: a tick in which the player collides with a BOOST_PAD removes
\* the pad and ends with speed exactly PLAYER_BOOST_SPEED, whatever the speed
\* was, unless a SNOW_MOUND that comes after the pad in the store slows the
\* player in the same pass; then the speed is below PLAYER_BOOST_SPEED.
C18_PadSetsSpeedUntilMound ==
    (obs.kind = "tick" /\ Had("pad")) =>
        /\ obs.store[LastPad].type = "BOOST_PAD"
        /\ entitiesRef = KeptFrom(obs.store, obs.effects, 1)
        /\ ~MoundAfterPad => playerRef.speed = PLAYER_BOOST_SPEED
        /\ MoundAfterPad =>
              /\ playerRef.speed < PLAYER_BOOST_SPEED
              /\ playerRef.speed >= MoundSlow(PLAYER_BOOST_SPEED)

C18_Witness ==
    /\ obs.kind = "tick" /\ Had("pad") /\ ~MoundAfterPad
    /\ obs.atCollision.speed > PLAYER_BOOST_SPEED
    /\ playerRef.speed = PLAYER_BOOST_SPEED

\* a frame that runs update() for a player on skis heading straight down below
\* the normal maximum, with ArrowDown the only key held, in which nothing is
\* hit or picked up and the Yeti does not strike
StraightRun ==
    /\ requestRef' # requestRef /\ ~Paused(gameState)
    /\ playerRef.state = "skiing" /\ playerRef.direction = 0
    /\ playerRef.speed < PLAYER_NORMAL_MAX
    /\ inputRef = {"ArrowDown"}
    /\ \A i \in DOMAIN obs'.effects : obs'.effects[i] = "none"
    /\ ~obs'.eats

\* C19: for a skiing player with direction 0 and speed s below the normal
\* maximum, one tick with only ArrowDown held and no collision sets speed to
\* min(s + PLAYER_ACCEL, PLAYER_NORMAL_MAX), increases y by exactly the new
\* speed and leaves x, the heading and the state unchanged.
C19_AccelerateStraight ==
    [][StraightRun =>
          /\ playerRef'.speed = Min(playerRef.speed + PLAYER_ACCEL, PLAYER_NORMAL_MAX)
          /\ playerRef'.y = playerRef.y + playerRef'.speed
          /\ playerRef'.x = playerRef.x
          /\ playerRef'.direction = 0 /\ playerRef'.state = "skiing"]_vars

\* the tick that reaches the normal maximum from 19.9, clamped
C19_Witness ==
    /\ obs.kind = "tick" /\ obs.keys = {"ArrowDown"}
    /\ \A i \in DOMAIN obs.effects : obs.effects[i] = "none"
    /\ playerRef.state = "skiing" /\ playerRef.direction = 0
    /\ playerRef.speed = PLAYER_NORMAL_MAX
    /\ playerRef.y = SlopeY + PLAYER_NORMAL_MAX
    /\ playerRef.x = InitialPlayer.x

\* a frame that runs update() for a player no faster than the normal maximum
\* and in which no boost pad is hit
NoPadTick ==
    /\ requestRef' # requestRef /\ ~Paused(gameState)
    /\ playerRef.speed <= PLAYER_NORMAL_MAX
    /\ \A i \in DOMAIN obs'.effects : obs'.effects[i] # "pad"

\* whether the frame starts a jump (line 1887)
JumpStarts == "ArrowUp" \in inputRef /\ playerRef.state = "skiing"

\* C20 as stated: if speed <= PLAYER_NORMAL_MAX before a tick in which no
\* BOOST_PAD is hit, then speed <= PLAYER_NORMAL_MAX after it, for every input.
C20_NormalMaxWithoutPad ==
    [][NoPadTick => playerRef'.speed <= PLAYER_NORMAL_MAX]_vars

\* C20 amended: if speed <= PLAYER_NORMAL_MAX before a tick in which no
\* BOOST_PAD is hit, then speed <= PLAYER_NORMAL_MAX after it unless the tick
\* starts a jump, whose bump of 0.5 can take it to at most
\* PLAYER_NORMAL_MAX + 0.5.
C20_NormalMaxButForJump ==
    [][NoPadTick =>
          IF JumpStarts
          THEN playerRef'.speed <= PLAYER_NORMAL_MAX + 500
          ELSE playerRef'.speed <= PLAYER_NORMAL_MAX]_vars

\* a jump started while accelerating into the normal maximum, with no pad
C20_Witness ==
    /\ obs.kind = "tick" /\ obs.keys = {"ArrowDown", "ArrowUp"}
    /\ \A i \in DOMAIN obs.effects : obs.effects[i] # "pad"
    /\ playerRef.state = "jumping" /\ playerRef.jumpHeight = JUMP_STRENGTH
    /\ playerRef.speed = PLAYER_NORMAL_MAX + 500

---------------------------------------------------------------------------
(* The commentary service *)

\* C21 (as stated): whenever the provider is unavailable (no API key), the
\* service is rate-limited, or the call fails with any error, the result of
\* generateGameCommentary is the fallback line of the requested event.
C21_FallbackOnAnyFailure ==
    told.why \in {"noKey", "limited", "quota", "error"}
        => told.value = getFallbackCommentary(told.event, told.cause)

\* C21 (amended): every result is a non-empty string; it is the fallback line
\* of the requested event when there is no API key, when the service is
\* rate-limited, when the call fails with a rate-limit error and when the
\* response has no text; it is the event-independent line of line 71 when
\* the call fails with any other error.
C21_FallbackOrCable ==
    /\ told.why # "" => told.value # ""
    /\ told.why \in {"noKey", "limited", "quota", "noText"}
         => told.value = getFallbackCommentary(told.event, told.cause)
    /\ told.why = "error" => told.value = CableText
    /\ told.why = "text" => told.value = "Powder day!"

\* a crash call that failed with an error other than a rate-limit signal
C21_Witness ==
    told.why = "error" /\ told.event = "crash" /\ told.cause = "tree"

\* a step in which a call to the provider starts (line 50): the calls under
\* way change otherwise than by the answer to one of them
StartsLiveCall ==
    /\ calls' # calls
    /\ \A i \in 1..Len(calls) : calls' # Without(calls, i)

\* C22: after every rate-limit signal from the provider, no call to the
\* provider is started during the 60 seconds that follow that signal,
\* whatever the interleaving of commentary requests and cooldown timers.
C22_NoLiveCallInCooldown ==
    [][StartsLiveCall => (sinceSignal = -1 \/ sinceSignal >= Cooldown)]_vars

\* a step in which the answer to a call under way is handed to the host, and
\* nothing else happens: no frame, no change of gameState
Delivers ==
    /\ requestRef' = requestRef
    /\ gameState' = gameState
    /\ \E i \in 1..Len(calls) :
          calls' \in {Without(calls, i),
                      Append(Without(calls, i), [event |-> "start", cause |-> ""])}

\* C23: the delivery of a commentary line, whenever it comes and whatever it
\* is, changes nothing of the simulation (player, entities, projectiles,
\* ground features, Yeti, score, frame counter, fire debounce).
C23_DeliveryChangesNothing ==
    [][Delivers => UNCHANGED simVars]_vars

---------------------------------------------------------------------------
(* The leaderboard *)

\* whether a list of entries is in descending order of score
Descending(list) ==
    \A i \in 1..(Len(list) - 1) : list[i].score >= list[i + 1].score

\* C24 (as stated): after every saveHighScore the leaderboard holds at most
\* MAX_HIGH_SCORES entries in descending order of score, and the score that
\* was offered for entry is in it.
C24_OfferedScoreKept ==
    obs.kind = "save" =>
        /\ Len(highScores) <= 5
        /\ Descending(highScores)
        /\ \E i \in 1..Len(highScores) : highScores[i].score = score

\* C24 (amended): every saveHighScore leaves at most MAX_HIGH_SCORES entries
\* in descending order of score; one made with a name that is not blank
\* leaves an entry with the upper-cased name and the offered score in the
\* list, and one made with a blank name leaves the list as it was.
C24_NamedScoreKept ==
    [][obs'.kind = "save" /\ obs.kind # "save" =>
          /\ Len(highScores') <= 5
          /\ Descending(highScores')
          /\ IF playerName \in {"", "  "}
             THEN highScores' = highScores
             ELSE \E i \in 1..Len(highScores') :
                     /\ highScores'[i] = [name |-> "ACE", score |-> score]
                     /\ \A j \in 1..Len(highScores) :
                           highScores[j] \in {highScores'[k] : k \in 1..Len(highScores')}
                             \/ highScores[j].score <= score]_vars

\* a save that put the new entry behind three entries of the same score and
\* dropped the last of a full list
C24_Witness ==
    /\ obs.kind = "save" /\ ~isNewHighScore /\ Len(highScores) = 5
    /\ highScores[5] = [name |-> "ACE", score |-> score]
    /\ highScores[4].score = score

---------------------------------------------------------------------------
(* Firing *)

\* a frame that runs update()
UpdateRuns == requestRef' # requestRef /\ ~Paused(gameState)

\* C25: a shot takes exactly one coffee and spawns exactly one projectile; it
\* happens only with the fire key held, coffee in hand and more than 20 ticks
\* after the previous shot, the ticks being the runs of update(), which
\* alone advance the clock and the time of the last shot; a tick without a
\* shot spawns no projectile and takes no coffee.  Coffee is never negative
\* and grows only by one per COFFEE pickup, so the projectiles spawned in a
\* session never outnumber the pickups collected.
C25_ShotRule ==
    [][/\ playerRef.coffee >= 0 /\ playerRef'.coffee >= 0
       /\ ~UpdateRuns =>
             /\ timeRef' = timeRef /\ lastFireTimeRef' = lastFireTimeRef
             /\ Len(projectilesRef') <= Len(projectilesRef)
             /\ playerRef'.coffee <= playerRef.coffee
       /\ UpdateRuns =>
             /\ timeRef' = timeRef + 1
             /\ playerRef'.coffee = obs'.afterMove.coffee + Pickups(obs')
             /\ IF obs'.fired
                THEN /\ "Space" \in inputRef /\ playerRef.coffee > 0
                     /\ timeRef - lastFireTimeRef > 20
                     /\ lastFireTimeRef' = timeRef
                     /\ obs'.afterMove.coffee = playerRef.coffee - 1
                     /\ Len(projectilesRef') + obs'.hits <= Len(projectilesRef) + 1
                     /\ projectilesRef = <<>> => Len(projectilesRef') + obs'.hits = 1
                ELSE /\ lastFireTimeRef' = lastFireTimeRef
                     /\ obs'.afterMove.coffee = playerRef.coffee
                     /\ Len(projectilesRef') + obs'.hits <= Len(projectilesRef)]_vars

\* the tick after a shot: the fire key still held, coffee left, no shot
C25_Witness ==
    /\ obs.kind = "tick" /\ "Space" \in obs.keys /\ ~obs.fired
    /\ Alive(obs.afterMove) /\ obs.afterMove.coffee > 0
    /\ lastFireTimeRef = timeRef - 2 /\ projectilesRef # <<>>

---------------------------------------------------------------------------
(* Consumables and the jump *)

Consumables == {"BOOST_PAD", "SUPER_MUSHROOM", "COFFEE", "SNOW_MOUND"}

\* the effect a consumable of the given type has when it is run over
EffectOf(type) ==
    CASE type = "BOOST_PAD" -> {"pad"}
      [] type = "SUPER_MUSHROOM" -> {"mushroom"}
      [] type = "COFFEE" -> {"coffee"}
      [] type = "SNOW_MOUND" -> {"mound", "moundFree"}
      [] OTHER -> {}

\* C26: in the collision step of a tick every BOOST_PAD, SUPER_MUSHROOM,
\* COFFEE and SNOW_MOUND that the player's hitbox overlaps (a SNOW_MOUND only
\* when the player is not jumping) takes effect and is gone from the store
\* when the tick ends, so that it cannot take effect again; the store after
\* the tick is the store before the step without the entities that took
\* effect; a SNOW_MOUND run over under an active power-up is removed and
\* leaves the speed as it was.
C26_ConsumedIsRemoved ==
    (obs.kind = "tick" /\ Alive(obs.atCollision)) =>
        /\ Len(obs.effects) = Len(obs.store)
        /\ entitiesRef = KeptFrom(obs.store, obs.effects, 1)
        /\ \A i \in DOMAIN obs.store :
              /\ (/\ obs.store[i].type \in Consumables
                  /\ OverlapsAtCollision(obs.store[i])
                  /\ ~(obs.atCollision.state = "jumping" /\ obs.store[i].type = "SNOW_MOUND"))
                    => obs.effects[i] \in EffectOf(obs.store[i].type)
              /\ obs.effects[i] \notin {"none", "crash", "spared"}
                    => obs.effects[i] \in EffectOf(obs.store[i].type)
              /\ obs.effects[i] = "moundFree" => playerRef.powerUpTimer > 0
              /\ obs.effects[i] = "mound" => obs.atCollision.powerUpTimer <= 0
        /\ (\A i \in DOMAIN obs.effects : obs.effects[i] \in {"none", "moundFree"})
              => playerRef.speed = obs.atCollision.speed

\* a powered-up player has run over a snow mound: the mound is gone and the
\* speed is what it was
C26_Witness ==
    /\ obs.kind = "tick" /\ Had("moundFree") /\ ~Had("mushroom")
    /\ Len(entitiesRef) < Len(obs.store)
    /\ playerRef.speed = obs.atCollision.speed /\ playerRef.speed > 0

\* whether the collision pass of the latest tick crashed the player before it
\* came to the i-th entity of the store
CrashedBefore(i) == \E j \in 1..(i - 1) : obs.effects[j] = "crash"

\* whether the player came to the i-th entity shielded: with a power-up or
\* behind a boost pad of the same pass
ShieldedAt(i) ==
    \/ obs.atCollision.powerUpTimer > 0
    \/ \E j \in 1..(i - 1) : obs.effects[j] \in {"pad", "mushroom"}

---------------------------------------------------------------------------
(* The Yeti's modes *)

\* the latest step was a tick whose Yeti step found a Yeti and a player with
\* an active power-up
ScaredTick ==
    obs.kind = "tick" /\ obs.yetiAtCheck # Null /\ obs.afterMove.powerUpTimer > 0

\* C28 (as stated): whenever a Yeti is present and the player holds an
\* active power-up at the Yeti step of a tick, the Yeti is in RETREAT when
\* that tick ends.
C28_PowerUpMeansRetreat ==
    ScaredTick => yetiRef # Null /\ yetiRef.mode = "RETREAT"

\* C28 (amended): in such a tick the Yeti is in RETREAT at the hit check of
\* line 2046 and the player is not eaten; the tick ends with the Yeti in
\* RETREAT and its timer one lower, unless the timer runs out in this tick
\* (the Yeti was retreating already, with one tick left): then the tick ends
\* with the Yeti in CHASE, timer 0.
C28_RetreatUnlessTimerEnds ==
    ScaredTick =>
        /\ obs.yetiAtCheck.mode = "RETREAT" /\ ~obs.eats /\ yetiRef # Null
        /\ IF obs.yetiAtCheck.modeTimer > 1
           THEN /\ yetiRef.mode = "RETREAT"
                /\ yetiRef.modeTimer = obs.yetiAtCheck.modeTimer - 1
           ELSE yetiRef.mode = "CHASE" /\ yetiRef.modeTimer = 0

\* a retreat that ran out under an active power-up
C28_Witness ==
    /\ ScaredTick /\ obs.yetiAtCheck.modeTimer = 1 /\ obs.hits = 0
    /\ yetiRef.mode = "CHASE" /\ playerRef.powerUpTimer > 0

\* a frame that runs update() with the same Yeti before and after it and a
\* player who is not eaten
YetiTick ==
    /\ UpdateRuns /\ yetiRef # Null /\ yetiRef' # Null /\ ~obs'.yetiSpawned
    /\ ~obs'.eats /\ obs'.afterMove.state # "eaten"

\* whether that tick sends the Yeti to RETREAT: a projectile hits it, or the
\* player holds a power-up and the Yeti is not retreating yet
Triggers ==
    obs'.hits > 0 \/ (obs'.afterMove.powerUpTimer > 0 /\ yetiRef.mode # "RETREAT")

\* a tick without a trigger: a running timer goes down by one; the tick in
\* which it reaches 0 takes PRE_LUNGE to LUNGE (timer 40), LUNGE to CHASE
\* (timer 120) and RETREAT to CHASE; PRE_LUNGE is entered with timer 30
TimersRun ==
    (YetiTick /\ ~Triggers) =>
        /\ (yetiRef.mode # "CHASE" /\ yetiRef.modeTimer > 1) =>
              yetiRef'.mode = yetiRef.mode /\ yetiRef'.modeTimer = yetiRef.modeTimer - 1
        /\ (yetiRef.mode = "PRE_LUNGE" /\ yetiRef.modeTimer <= 1) =>
              yetiRef'.mode = "LUNGE" /\ yetiRef'.modeTimer = 40
        /\ (yetiRef.mode = "LUNGE" /\ yetiRef.modeTimer <= 1) =>
              yetiRef'.mode = "CHASE" /\ yetiRef'.modeTimer = 120
        /\ (yetiRef.mode = "RETREAT" /\ yetiRef.modeTimer <= 1) =>
              yetiRef'.mode = "CHASE" /\ yetiRef'.modeTimer = 0
        /\ (yetiRef.mode = "CHASE" /\ yetiRef'.mode = "PRE_LUNGE") =>
              yetiRef'.modeTimer = 30

C30_LungeAfterCooldown ==
    [][UpdateRuns /\ yetiRef' # Null =>
          /\ (yetiRef'.mode = "PRE_LUNGE" /\ (yetiRef.mode # "PRE_LUNGE" \/ obs'.yetiSpawned)) =>
                /\ obs'.yetiAtCheck.mode = "CHASE" /\ obs'.yetiAtCheck.modeTimer <= 1
                /\ ~obs'.yetiSpawned => yetiRef.mode = "CHASE" /\ yetiRef.modeTimer <= 1
                /\ obs'.hits = 0 /\ obs'.afterMove.powerUpTimer <= 0
                /\ yetiRef'.modeTimer = 30
          /\ (yetiRef.mode = "LUNGE" /\ yetiRef'.mode = "CHASE" /\ ~obs'.yetiSpawned) =>
                yetiRef'.modeTimer = 120
          /\ (yetiRef.mode = "CHASE" /\ yetiRef.modeTimer > 1 /\ ~obs'.yetiSpawned) =>
                /\ yetiRef'.mode \in {"CHASE", "RETREAT"}
                /\ yetiRef'.mode = "CHASE" =>
                      yetiRef'.modeTimer \in {yetiRef.modeTimer, yetiRef.modeTimer - 1}
                /\ (yetiRef'.mode = "CHASE" /\ yetiRef'.modeTimer = yetiRef.modeTimer) =>
                      obs'.afterMove.state = "eaten" \/ obs'.eats]_vars

\* a Yeti that entered PRE_LUNGE in the last tick of its cooldown
C30_Witness ==
    /\ obs.kind = "tick" /\ ~obs.yetiSpawned /\ yetiRef # Null
    /\ obs.yetiAtCheck.mode = "CHASE" /\ obs.yetiAtCheck.modeTimer = 1
    /\ yetiRef.mode = "PRE_LUNGE" /\ yetiRef.modeTimer = 30

---------------------------------------------------------------------------
(* The Yeti's movement *)

\* a tick that the Yeti begins and ends in RETREAT, the same Yeti throughout
RetreatTick ==
    /\ UpdateRuns /\ yetiRef # Null /\ yetiRef' # Null /\ ~obs'.yetiSpawned
    /\ yetiRef.mode = "RETREAT" /\ yetiRef'.mode = "RETREAT"

\* the Yeti's distance from the player along the Y axis
YGap(p, yeti) == Abs(p.y - yeti.y)

\* C31: in every tick the Yeti spends in RETREAT its x coordinate is
\* unchanged and its distance from the player along the Y axis does not
\* decrease.
C31_RetreatMovesAway ==
    [][RetreatTick =>
          /\ yetiRef'.x = yetiRef.x
          /\ YGap(playerRef', yetiRef') >= YGap(playerRef, yetiRef)]_vars

\* what holds of such a tick: x is unchanged and y changes by the smoothed
\* speed, whatever its sign
RetreatAlongY ==
    [][RetreatTick =>
          /\ yetiRef'.x = yetiRef.x
          /\ yetiRef'.y - yetiRef.y \in {0, yetiRef'.currentSpeed}]_vars

\* a frame that runs update() with the same Yeti before and after it
SameYeti ==
    UpdateRuns /\ yetiRef # Null /\ yetiRef' # Null /\ ~obs'.yetiSpawned

\* within one acceleration step of the range spanned by the targets of
\* RETREAT and LUNGE
NearTargets(speed) ==
    /\ speed >= -6000 - YETI_ACCEL_FACTOR * 2
    /\ speed <= (YETI_TOP_SPEED * 3) \div 2 + 1000

---------------------------------------------------------------------------
(* The generator *)

\* the difficulty tier of the call of spawnEntities that the tick makes
\* (lines 1984-1986 and 1652)
GenTier ==
    DifficultyTier(SpawnStartY(Cull(entitiesRef, obs'.afterMove), obs'.afterMove))

---------------------------------------------------------------------------
(* Depth and score *)

\* C34: the player's depth y never decreases from one tick to the next,
\* whatever the heading and the speed, and the score written at the end of
\* each tick is the floor of y, in scoreRef and in the host's score alike,
\* so it does not decrease from tick to tick either.
C34_DepthNeverDecreases ==
    [][UpdateRuns =>
          /\ playerRef'.y >= playerRef.y
          /\ scoreRef' = Floor(playerRef'.y)
          /\ score' = scoreRef'
          /\ scoreRef' >= scoreRef]_vars

\* a tick across the slope: at heading 2 the player moves sideways only
C34_Witness ==
    /\ obs.kind = "tick" /\ Alive(playerRef) /\ playerRef.speed > 0
    /\ playerRef.direction = 2000 /\ playerRef.y = SlopeY
    /\ playerRef.x > CANVAS_WIDTH \div 2

---------------------------------------------------------------------------
(* Before the first session *)

\* a frame in MENU changes neither the player nor the entities nor the
\* score, and leaves the game in MENU
MenuIsStill ==
    (requestRef' # requestRef /\ gameState = "MENU") =>
        /\ gameState' = "MENU"
        /\ UNCHANGED <<playerRef, entitiesRef, scoreRef, score>>

\* the start button pressed in MENU leaves the player in the initial state,
\* without a Yeti, at score 0
MenuStartIsFresh ==
    (gameState = "MENU" /\ gameState' = "PLAYING") =>
        /\ playerRef' = InitialPlayer /\ yetiRef' = Null
        /\ scoreRef' = 0 /\ score' = 0

\* C35: the simulation does not advance before a session is started: no
\* tick in MENU changes the player, the entities or the score or ends the
\* game, and a session started from the menu begins from the initial state
\* (y = 100, speed 0, no Yeti).
C35_MenuDoesNotAdvance ==
    [][MenuIsStill /\ MenuStartIsFresh]_vars

\* MenuStartIsFresh as a property of its own
StartFromMenuIsFresh == [][MenuStartIsFresh]_vars

---------------------------------------------------------------------------
(* The Yeti's catch *)

\* C36: a Yeti in RETREAT never eats the player: in every tick in which the
\* player is eaten, the Yeti at the hit check of line 2046 is in CHASE,
\* PRE_LUNGE or LUNGE.
C36_RetreatNeverEats ==
    (obs.kind = "tick" /\ obs.eats) =>
        obs.yetiAtCheck.mode \in {"CHASE", "PRE_LUNGE", "LUNGE"}

\* a coffee cup sent the Yeti to RETREAT in one tick and the retreating Yeti
\* ate the player in the next
EatenAfterHit ==
    /\ obs.kind = "tick" /\ obs.eats /\ obs.hits = 0 /\ obs.afterMove.coffee = 0
    /\ obs.yetiAtCheck.mode = "RETREAT" /\ obs.yetiAtCheck.modeTimer = 239
    /\ obs.keys = {"Space"}

---------------------------------------------------------------------------
(* The projectile-hit step *)

\* C37: after the projectile-hit step of a tick no live projectile lies
\* within the hit radius (30) of the Yeti's centre, and a Yeti that was hit
\* is in RETREAT with a full timer at the hit check that follows.
C37_HitsAllRemoved ==
    (obs.kind = "tick" /\ obs.yetiAtCheck # Null) =>
        /\ \A i \in DOMAIN projectilesRef :
              ~HitsYeti(projectilesRef[i], obs.yetiAtCheck)
        /\ obs.hits > 0 =>
              /\ obs.yetiAtCheck.mode = "RETREAT"
              /\ obs.yetiAtCheck.modeTimer = YETI_SCARE_DURATION

\* the second half of C37 alone: a hit leaves the Yeti in RETREAT with a
\* full timer at the hit check
HitMeansRetreat ==
    (obs.kind = "tick" /\ obs.hits > 0) =>
        /\ obs.yetiAtCheck.mode = "RETREAT"
        /\ obs.yetiAtCheck.modeTimer = YETI_SCARE_DURATION

---------------------------------------------------------------------------
(* The obstacle types *)

\* the types the generator chooses among (lines 1671-1679)
ObstacleTypes == {"TREE", "ROCK", "STUMP", "SNOW_MOUND"}

\* some type roll of a call in the given tier gives the type
Producible(type, tier) == \E roll \in 0..999 : ObstacleType(roll, tier) = type

\* C38: every obstacle type the generator chooses among can be produced:
\* when spawnEntities is called, each of TREE, ROCK, STUMP and SNOW_MOUND is
\* the outcome of some type roll in the tier of the call or in a tier passed
\* on the way down to it.
C38_EveryTypeProduced ==
    (obs.kind = "tick" /\ obs.genCalled) =>
        \A type \in ObstacleTypes :
            \E tier \in 0..DifficultyTier(BottomEdge(obs.afterMove)) :
                Producible(type, tier)

\* what the generator has added in a tick is never a STUMP
StumpNeverAdded ==
    (obs.kind = "tick" /\ obs.genAdded > 0) =>
        entitiesRef[Len(entitiesRef)].type # "STUMP"

\* the generator has just added an obstacle of the given type
Added(type) ==
    /\ obs.kind = "tick" /\ obs.genAdded > 0
    /\ entitiesRef[Len(entitiesRef)].type = type

---------------------------------------------------------------------------
(* The announcer's line and the events *)

\* a delivery that puts a line on display that is out of date: the line of a
\* 'start' after the session it opened has ended and the line of that crash
\* or catch has been shown, or the line of a crash or a catch when a new
\* session is under way
StaleDelivery ==
    /\ Delivers
    /\ \/ /\ told'.event = "start" /\ gameState \in {"CRASHED", "EATEN"}
          /\ told.event \in {"crash", "eaten"}
       \/ told'.event \in {"crash", "eaten"} /\ gameState = "PLAYING"

\* C39: the commentary shown always belongs to the most recent event: the
\* late answer to an earlier request never replaces the line of a later
\* event, and an answer requested in one session is never put on display
\* after a restart.
C39_LatestEventShown ==
    [][~StaleDelivery]_vars

\* the first half of C39 alone: no late 'start' line over the line of the
\* crash or catch that ended the session
NoLateStart ==
    [][Delivers => ~(/\ told'.event = "start" /\ gameState \in {"CRASHED", "EATEN"}
                     /\ told.event \in {"crash", "eaten"})]_vars

\* the second half alone: no line of an ended session after a restart
NoLineAcrossRestart ==
    [][Delivers => ~(told'.event \in {"crash", "eaten"} /\ gameState = "PLAYING")]_vars

---------------------------------------------------------------------------
(* The length of a jump *)

\* the player is in the k-th tick of a jump
InJumpTick(p, k) ==
    /\ p.state = "jumping"
    /\ p.jumpHeight = JumpPhase(k).jumpHeight
    /\ p.jumpVelocity = JumpPhase(k).jumpVelocity

\* the speed step 1 leaves without the bump of a jump (lines 1860-1885, 1925)
SpeedWithoutBump(p, keys) ==
    FloorSpeed(CapSpeed(IF "ArrowDown" \in keys THEN Accelerate(p.speed)
                        ELSE Cruise(p.speed, Steer(p.direction, keys))))

\* C40: every jump ends.  A jump starts only from 'skiing' with ArrowUp
\* held, with jumpVelocity JUMP_STRENGTH and the speed bump of line 1891; a
\* jumping player is in the k-th tick of its jump for some k from 1 to 40,
\* and a tick takes it to the next one without another bump, whatever keys
\* are held, to 'skiing' with height and velocity 0 when k = 40, or to a
\* terminal state.  So the player is back on its skis 40 ticks after the
\* tick that started the jump, jumpVelocity never exceeds JUMP_STRENGTH and
\* the bump is applied once per jump.
C40_JumpEnds ==
    [][UpdateRuns =>
          /\ playerRef.state = "jumping" =>
                \E k \in 1..40 :
                    /\ InJumpTick(playerRef, k)
                    /\ obs'.afterMove.speed = SpeedWithoutBump(playerRef, inputRef)
                    /\ \/ k < 40 /\ InJumpTick(playerRef', k + 1)
                       \/ /\ k = 40 /\ playerRef'.state = "skiing"
                          /\ playerRef'.jumpHeight = 0 /\ playerRef'.jumpVelocity = 0
                       \/ playerRef'.state \in {"crashed", "eaten"}
          /\ (playerRef.state # "jumping" /\ playerRef'.state = "jumping") =>
                /\ playerRef.state = "skiing" /\ "ArrowUp" \in inputRef
                /\ InJumpTick(playerRef', 1)
                /\ obs'.afterMove.speed = JumpBump(SpeedWithoutBump(playerRef, inputRef))
          /\ playerRef'.state = "jumping" => playerRef'.jumpVelocity <= JUMP_STRENGTH]_vars

\* a jump in its last tick in the air with ArrowUp held has landed
C40_Witness ==
    /\ obs.kind = "tick" /\ obs.landed /\ "ArrowUp" \in obs.keys
    /\ playerRef.state = "skiing" /\ playerRef.jumpVelocity = 0

====
